---- MODULE Spec2Model ----
(***************************************************************************)
(* mini-notes: a model of the two workers of the repository and of the     *)
(* router.                                                                 *)
(*                                                                         *)
(*   impl = "ts"   the TypeScript worker (router + AuthController +        *)
(*                 NotesController, src/src/worker/controllers/*.ts)       *)
(*   impl = "js"   the single-file worker src/src/index.js (MiniNotesApp)  *)
(*   impl = "js0"  the earlier single-file worker src/unnamed/part_002     *)
(*                 (same handlers, no try/catch in handleAuth, tokens      *)
(*                 never stored)                                           *)
(*                                                                         *)
(* Strings are TLA+ strings, so keys, tokens and paths are built and taken *)
(* apart character by character as the code does.  A stored JSON text is   *)
(* modelled by the record it encodes; an ISO timestamp by the clock value  *)
(* it was taken at.                                                        *)
(***************************************************************************)
EXTENDS Integers, Sequences, FiniteSets, TLC

VARIABLES
    impl,      \* which worker serves the requests of this behaviour
    clock,     \* Date.now()
    entropy,   \* number of random values drawn so far (randomUUID, Math.random)
    created,   \* number of notes created so far
    USERS,     \* the USERS KV namespace: key -> stored value
    NOTES,     \* the NOTES KV namespace: key -> stored value
    issued,    \* tokens handed out by register/login: token -> who it was issued to
    last,      \* the last request handled and its response
    routes,    \* Router.routes
    routed,    \* the last request given to Router.handle and what it did
    matched,   \* the last pattern/path pair given to matchPath/getPathParams
    pending,   \* the requests in flight in the worker: request slot -> its progress
    page,      \* the single-page client served by index.js
    notesStore, \* the notes store of the React frontend
    memoryStorage  \* the in-memory map of the MiniNotesApp that handled the last request

vars == <<impl, clock, entropy, created, USERS, NOTES, issued, last, routes, routed, matched,
          pending, page, notesStore, memoryStorage>>

routerVars == <<routes, routed, matched>>

\* the worker's requests in flight, the two clients and the development map
auxVars == <<pending, page, notesStore, memoryStorage>>

(***************************************************************************)
(* Bounds of the model.                                                    *)
(***************************************************************************)
\* tokens issued by register and login
MaxTokens == 2
\* value of Date.now()
MaxClock == 1
\* notes created
MaxNotes == 2
\* routes registered with the router
MaxRoutes == 2
\* '/'-separated pieces of a pattern or a path
MaxSegs == 3
\* value of Date.now() where tokens outlive their expiry
MaxLifetime == 2

(***************************************************************************)
(* Program constants.                                                      *)
(***************************************************************************)
\* auth.ts:78  body.password.length < 6
MinPasswordLength == 6
\* index.js:302  expiresAt = Date.now() + 24 h; one clock tick of the model
\* stands for the 24 hours
TokenTtl == 1

(***************************************************************************)
(* Values.                                                                 *)
(***************************************************************************)
\* a JSON field that is missing from the body, a header that is absent
Undefined == "<undefined>"

\* JavaScript truthiness of a string-or-undefined value
Falsy(v) == v = Undefined \/ v = ""

\* `${v}` in a template literal
Tpl(v) == IF v = Undefined THEN "undefined" ELSE v

\* null, as returned by authenticateRequest and by a KV get of a missing key
Null == "<null>"

Usernames == {"alice", "bob"}

StartsWith(s, p) == Len(s) >= Len(p) /\ SubSeq(s, 1, Len(p)) = p

\* s.slice(n) / s.substring(n)
Slice(s, n) == IF n >= Len(s) THEN "" ELSE SubSeq(s, n + 1, Len(s))

\* index of the first occurrence of the one-character string c in s, 0 if none
RECURSIVE IndexFrom(_, _, _)
IndexFrom(s, c, i) ==
    IF i > Len(s) THEN 0
    ELSE IF SubSeq(s, i, i) = c THEN i
    ELSE IndexFrom(s, c, i + 1)

\* s.split(c): the sequence of the pieces between the occurrences of c
RECURSIVE Split(_, _)
Split(s, c) ==
    LET i == IndexFrom(s, c, 1) IN
    IF i = 0 THEN <<s>>
    ELSE <<SubSeq(s, 1, i - 1)>> \o Split(Slice(s, i), c)

\* s.split(c)[0]: the text before the first occurrence of c, s if there is none
FirstPiece(s, c) ==
    LET i == IndexFrom(s, c, 1) IN
    IF i = 0 THEN s ELSE SubSeq(s, 1, i - 1)

\* index of the last occurrence of the one-character string c in s at or
\* before i, 0 if none
RECURSIVE LastIndexFrom(_, _, _)
LastIndexFrom(s, c, i) ==
    IF i < 1 THEN 0
    ELSE IF SubSeq(s, i, i) = c THEN i
    ELSE LastIndexFrom(s, c, i - 1)

\* s.split(c).pop(): the text after the last occurrence of c, s if there is none
LastPiece(s, c) == Slice(s, LastIndexFrom(s, c, Len(s)))

\* crypto.randomUUID(): the n-th value drawn
Uuid(n) == "u" \o ToString(n)

\* btoa / atob: an injective encoding; atob throws on text that is no base64
Btoa(s) == "b64." \o s
AtobOk(t) == StartsWith(t, "b64.")
Atob(t) == Slice(t, 4)

\* hex of the SHA-256 digest: injective on the inputs of the model
Sha256Hex(s) == "sha256." \o s

\* bcrypt.hash(password, cost): the salt plays no part in compare
BcryptHash(password, cost) == [alg |-> "bcrypt", cost |-> cost, of |-> password]

\* bcryptjs compare rejects ("Illegal arguments") unless both are strings
BcryptCompareThrows(password) == password = Undefined
BcryptCompare(password, hash) == hash.of = password

Has(kv, key) == key \in DOMAIN kv
\* a put that keeps the value of a key that is there
PutIfAbsent(kv, key, value) == IF key \in DOMAIN kv THEN kv ELSE kv @@ (key :> value)
Put(kv, key, value) == [k \in DOMAIN kv \cup {key} |-> IF k = key THEN value ELSE kv[k]]
\* a delete that leaves the key
DeleteNothing(kv, key) == kv
Delete(kv, key) == [k \in DOMAIN kv \ {key} |-> kv[k]]
EmptyKV == [k \in {} |-> Undefined]

\* response headers: name -> value
NoHeaders == [k \in {} |-> ""]

\* part_000:34-38, part_001:77-79, index.js:4-8  the three CORS headers
CORS_HEADERS ==
    ("Access-Control-Allow-Origin" :> "*")
        @@ ("Access-Control-Allow-Methods" :> "GET, POST, PUT, DELETE, OPTIONS")
        @@ ("Access-Control-Allow-Headers" :> "Content-Type, Authorization")

\* the one CORS header of the responses of the TypeScript worker
AllowOrigin == "Access-Control-Allow-Origin" :> "*"

ContentType(type) == "Content-Type" :> type

\* headers that name the content type only
ContentTypeOnly == ContentType("application/json")

\* jsonResponse of auth.ts and notes.ts: Content-Type and Access-Control-Allow-Origin
TsJsonHeaders == ContentType("application/json") @@ AllowOrigin

\* { ...CORS_HEADERS, 'Content-Type': 'application/json' } of the single-file workers
JsJsonHeaders == CORS_HEADERS @@ ContentType("application/json")

\* the record of a request and its response
\*   thrown: an exception escaped the worker's fetch (no response)
\*   failed: a storage call made while handling the request failed
\*   user:   whom authenticateRequest took the caller for (notes requests)
Response(op, req, status, body) ==
    [op |-> op, req |-> req, status |-> status, body |-> body,
     thrown |-> FALSE, failed |-> FALSE, user |-> Null, headers |-> NoHeaders]
WithHeaders(r, headers) == [r EXCEPT !.headers = headers]
ResponseTo(user, op, req, status, body) ==
    [Response(op, req, status, body) EXCEPT !.user = user, !.headers = TsJsonHeaders]
Failed(r) == [r EXCEPT !.failed = TRUE]
Thrown(op, req, failed) ==
    [op |-> op, req |-> req, status |-> 0, body |-> [error |-> "uncaught"],
     thrown |-> TRUE, failed |-> failed, user |-> Null, headers |-> NoHeaders]
ErrorBody(msg) == [error |-> msg]

\* the request of a login or a register: POST /api/auth/<action> with a body
AuthRequest(action, username, password) ==
    [method |-> "POST", path |-> "/api/auth/" \o action,
     username |-> username, password |-> password]

NoRequest == [op |-> "none", req |-> [none |-> TRUE], status |-> 0,
              body |-> [none |-> TRUE], thrown |-> FALSE, failed |-> FALSE,
              user |-> Null, headers |-> NoHeaders]

(***************************************************************************)
(* AuthController (TypeScript worker).                                     *)
(***************************************************************************)
\* generateToken: btoa(`${userId}:${timestamp}:${random}`), nothing stored
TsGenerateToken(userId, now, n) ==
    Btoa(userId \o ":" \o ToString(now) \o ":" \o Uuid(n))

\* the public view of a stored user returned with the token
PublicUser(user) ==
    [id |-> user.id, username |-> user.username, createdAt |-> user.createdAt]

TokensLeft == Cardinality(DOMAIN issued) < MaxTokens

\* register, for a body drawn from U x P; F: which storage call fails (0: none)
TsRegister(U, P, F) ==
    /\ impl = "ts"
    /\ \E username \in U, password \in P, fault \in F :
        LET req == AuthRequest("register", username, password)
            R(status, body) == WithHeaders(Response("register", req, status, body), TsJsonHeaders)
            user == [id |-> Uuid(entropy + 1), username |-> username,
                     passwordHash |-> BcryptHash(password, 12), createdAt |-> clock]
            token == TsGenerateToken(user.id, clock, entropy + 2)
        IN
        IF Falsy(username) \/ Falsy(password) THEN
            /\ last' = R(400, ErrorBody("Username and password are required"))
            /\ UNCHANGED <<USERS, entropy, issued>>
        ELSE IF Len(password) < MinPasswordLength THEN
            /\ last' = R(400, ErrorBody("Password must be at least 6 characters"))
            /\ UNCHANGED <<USERS, entropy, issued>>
        ELSE IF fault = 1 THEN
            /\ last' = Failed(R(500, ErrorBody("Internal server error")))
            /\ UNCHANGED <<USERS, entropy, issued>>
        ELSE IF Has(USERS, username) THEN
            /\ last' = R(409, ErrorBody("Username already exists"))
            /\ UNCHANGED <<USERS, entropy, issued>>
        ELSE IF fault = 2 THEN
            /\ last' = Failed(R(500, ErrorBody("Internal server error")))
            /\ UNCHANGED <<USERS, entropy, issued>>
        ELSE
            /\ TokensLeft
            /\ USERS' = Put(USERS, username, user)
            /\ entropy' = entropy + 2
            /\ issued' = Put(issued, token, [username |-> username, principal |-> user.id,
                                             at |-> clock])
            /\ last' = R(201, [token |-> token, user |-> PublicUser(user)])
    /\ UNCHANGED <<impl, clock, created, NOTES, routerVars, auxVars>>

TsLogin(U, P, F) ==
    /\ impl = "ts"
    /\ \E username \in U, password \in P, fault \in F :
        LET req == AuthRequest("login", username, password)
            R(status, body) == WithHeaders(Response("login", req, status, body), TsJsonHeaders)
        IN
        IF Falsy(username) \/ Falsy(password) THEN
            /\ last' = R(400, ErrorBody("Username and password are required"))
            /\ UNCHANGED <<entropy, issued>>
        ELSE IF fault = 1 THEN
            /\ last' = Failed(R(500, ErrorBody("Internal server error")))
            /\ UNCHANGED <<entropy, issued>>
        ELSE IF ~Has(USERS, username) THEN
            /\ last' = R(401, ErrorBody("Invalid credentials"))
            /\ UNCHANGED <<entropy, issued>>
        ELSE IF ~BcryptCompare(password, USERS[username].passwordHash) THEN
            /\ last' = R(401, ErrorBody("Invalid credentials"))
            /\ UNCHANGED <<entropy, issued>>
        ELSE
            LET user == USERS[username]
                token == TsGenerateToken(user.id, clock, entropy + 1)
            IN
            /\ TokensLeft
            /\ entropy' = entropy + 1
            /\ issued' = Put(issued, token, [username |-> username, principal |-> user.id,
                                             at |-> clock])
            /\ last' = R(200, [token |-> token, user |-> PublicUser(user)])
    /\ UNCHANGED <<impl, clock, created, USERS, NOTES, routerVars, auxVars>>

(***************************************************************************)
(* MiniNotesApp.handleAuth and generateToken (single-file workers).        *)
(***************************************************************************)
\* index.js: SHA-256 of username:now:Math.random(), stored under token:<hex>
\* part_002: SHA-256 of username:now, nothing stored
JsToken(username, now, n) ==
    IF impl = "js"
    THEN Sha256Hex(username \o ":" \o ToString(now) \o ":r" \o ToString(n))
    ELSE Sha256Hex(username \o ":" \o ToString(now))

JsTokenData(username, now) ==
    [username |-> username, createdAt |-> now, expiresAt |-> now + TokenTtl]

\* the USERS namespace after generateToken
JsStoreToken(users, username, now, n) ==
    IF impl = "js"
    THEN Put(users, "token:" \o JsToken(username, now, n), JsTokenData(username, now))
    ELSE users

\* an exception raised inside handleAuth: index.js catches it and answers 500
\* with the message; part_002 has no try/catch and handleAPI returns the
\* promise without awaiting it, so the rejection leaves fetch
JsAuthException(op, req, prefix, msg, storage) ==
    IF impl = "js"
    THEN [Response(op, req, 500, ErrorBody(prefix \o msg)) EXCEPT
            !.failed = storage, !.headers = JsJsonHeaders]
    ELSE Thrown(op, req, storage)

JsHandleAuth(A, U, P, F) ==
    /\ impl \in {"js", "js0"}
    /\ \E action \in A, username \in U, password \in P, fault \in F :
        LET req == AuthRequest(action, username, password)
            R(status, body) == WithHeaders(Response(action, req, status, body), JsJsonHeaders)
            userKey == "user:" \o Tpl(username)
            draws == IF impl = "js" THEN 1 ELSE 0
            token == JsToken(username, clock, entropy + 1)
            grant == [username |-> username, principal |-> username, at |-> clock]
        IN
        IF action = "login" THEN
            IF fault = 1 THEN
                /\ last' = JsAuthException(action, req, "Login failed: ", "storage error", TRUE)
                /\ UNCHANGED <<USERS, entropy, issued>>
            ELSE IF ~Has(USERS, userKey) THEN
                /\ last' = R(401, ErrorBody("Invalid credentials"))
                /\ UNCHANGED <<USERS, entropy, issued>>
            ELSE IF BcryptCompareThrows(password) THEN
                /\ last' = JsAuthException(action, req, "Login failed: ",
                                           "Illegal arguments: undefined, string", FALSE)
                /\ UNCHANGED <<USERS, entropy, issued>>
            ELSE IF ~BcryptCompare(password, USERS[userKey].passwordHash) THEN
                /\ last' = R(401, ErrorBody("Invalid credentials"))
                /\ UNCHANGED <<USERS, entropy, issued>>
            ELSE IF fault = 2 /\ impl = "js" THEN
                /\ last' = JsAuthException(action, req, "Login failed: ", "storage error", TRUE)
                /\ UNCHANGED <<USERS, entropy, issued>>
            ELSE
                /\ TokensLeft \/ Has(issued, token)
                /\ USERS' = JsStoreToken(USERS, username, clock, entropy + 1)
                /\ entropy' = entropy + draws
                /\ issued' = Put(issued, token, grant)
                /\ last' = R(200, [token |-> token, username |-> username])
        ELSE
            IF Falsy(username) \/ Falsy(password) THEN
                /\ last' = R(400, ErrorBody("Username and password required"))
                /\ UNCHANGED <<USERS, entropy, issued>>
            ELSE IF fault = 1 THEN
                /\ last' = JsAuthException(action, req, "Registration failed: ", "storage error", TRUE)
                /\ UNCHANGED <<USERS, entropy, issued>>
            ELSE IF Has(USERS, userKey) THEN
                /\ last' = R(400, ErrorBody("Username already exists"))
                /\ UNCHANGED <<USERS, entropy, issued>>
            ELSE IF fault = 2 THEN
                /\ last' = JsAuthException(action, req, "Registration failed: ", "storage error", TRUE)
                /\ UNCHANGED <<USERS, entropy, issued>>
            ELSE
                LET stored == Put(USERS, userKey,
                                  [username |-> username,
                                   passwordHash |-> BcryptHash(password, 10),
                                   createdAt |-> clock])
                IN
                IF fault = 3 /\ impl = "js" THEN
                    /\ USERS' = stored
                    /\ last' = JsAuthException(action, req, "Registration failed: ", "storage error", TRUE)
                    /\ UNCHANGED <<entropy, issued>>
                ELSE
                    /\ TokensLeft \/ Has(issued, token)
                    /\ USERS' = JsStoreToken(stored, username, clock, entropy + 1)
                    /\ entropy' = entropy + draws
                    /\ issued' = Put(issued, token, grant)
                    /\ last' = R(200, [token |-> token, username |-> username])
    /\ UNCHANGED <<impl, clock, created, NOTES, routerVars, auxVars>>

\* time passes between two requests, up to the time limit
TickUntil(limit) ==
    /\ clock < limit
    /\ clock' = clock + 1
    /\ UNCHANGED <<impl, entropy, created, USERS, NOTES, issued, last, routerVars, auxVars>>

Tick == TickUntil(MaxClock)

(***************************************************************************)
(* NotesController (TypeScript worker).                                    *)
(***************************************************************************)
\* authenticateRequest: the user id is the text before the first ':' of the
\* decoded token; no lookup
TsAuthenticateRequest(header) ==
    IF Falsy(header) \/ ~StartsWith(header, "Bearer ") THEN Null
    ELSE LET token == Slice(header, 7) IN
         IF ~AtobOk(token) THEN Null
         ELSE LET userId == FirstPiece(Atob(token), ":") IN
              IF userId = "" THEN Null ELSE userId

\* a prefix that no stored key has
TsNotesPrefixPlural(userId) == "users:" \o userId \o ":notes"
TsNotesPrefix(userId) == "user:" \o userId \o ":notes"
\* a key that does not name the owner
TsNoteKeyShared(userId, noteId) == "user:notes:" \o noteId
TsNoteKey(userId, noteId) == "user:" \o userId \o ":notes:" \o noteId

\* url.pathname.split('/').pop()
LastSegment(path) == LastPiece(path, "/")

\* the characters of the keys, in code-unit order
Ascii == "-.0123456789:<>ABCDEFGHIJKLMNOPQRSTUVWXYZabcdefghijklmnopqrstuvwxyz"
Rank(c) == IndexFrom(Ascii, c, 1)

RECURSIVE StrLess(_, _)
StrLess(a, b) ==
    IF b = "" THEN FALSE
    ELSE IF a = "" THEN TRUE
    ELSE IF Head(a) # Head(b) THEN Rank(Head(a)) < Rank(Head(b))
    ELSE StrLess(Tail(a), Tail(b))

\* NOTES.list({prefix}).keys: the keys with the prefix, in lexicographic order
RECURSIVE InOrder(_)
InOrder(keys) ==
    IF keys = {} THEN <<>>
    ELSE LET m == CHOOSE k \in keys : \A o \in keys \ {k} : StrLess(k, o)
         IN <<m>> \o InOrder(keys \ {m})
KvList(kv, prefix) == InOrder({k \in DOMAIN kv : StartsWith(k, prefix)})

\* notes.sort((a, b) => b.updatedAt - a.updatedAt): stable, newest first
RECURSIVE InsertNote(_, _)
InsertNote(sorted, n) ==
    IF sorted = <<>> THEN <<n>>
    ELSE IF Head(sorted).updatedAt >= n.updatedAt
         THEN <<Head(sorted)>> \o InsertNote(Tail(sorted), n)
         ELSE <<n>> \o sorted
RECURSIVE SortNewestFirst(_)
SortNewestFirst(notes) ==
    IF notes = <<>> THEN <<>>
    ELSE InsertNote(SortNewestFirst(SubSeq(notes, 1, Len(notes) - 1)), notes[Len(notes)])

NotesLeft == created < MaxNotes

NotesRequest(method, path, auth, title, content) ==
    [method |-> method, path |-> path, auth |-> auth, title |-> title, content |-> content]

TsInternalError(user, op, req) ==
    Failed(ResponseTo(user, op, req, 500, ErrorBody("Internal server error")))

\* the notes that getNotes reads for the user: those under the keys that list
\* returns, in the order of the keys
TsUserNotes(store, userId) ==
    LET keys == KvList(store, TsNotesPrefix(userId)) IN
    [i \in 1..Len(keys) |-> store[keys[i]]]

\* H: Authorization headers; F: which storage call fails (0: none)
TsGetNotes(H, F) ==
    /\ impl = "ts"
    /\ \E auth \in H, fault \in F :
        LET req == NotesRequest("GET", "/api/notes", auth, Undefined, Undefined)
            userId == TsAuthenticateRequest(auth)
            notes == TsUserNotes(NOTES, userId)
        IN
        last' = IF userId = Null THEN ResponseTo(userId, "getNotes", req, 401, ErrorBody("Unauthorized"))
                ELSE IF fault = 1 \/ (fault = 2 /\ notes # <<>>) THEN TsInternalError(userId, "getNotes", req)
                ELSE ResponseTo(userId, "getNotes", req, 200, [notes |-> SortNewestFirst(notes)])
    /\ UNCHANGED <<impl, clock, entropy, created, USERS, NOTES, issued, routerVars, auxVars>>

\* a createNote that stores the note before it looks at the body
TsCreateNoteUnchecked(H, T, C, F) ==
    /\ impl = "ts"
    /\ \E auth \in H, title \in T, content \in C, fault \in F :
        LET req == NotesRequest("POST", "/api/notes", auth, title, content)
            userId == TsAuthenticateRequest(auth)
            note == [id |-> Uuid(entropy + 1), userId |-> userId, title |-> title,
                     content |-> content, createdAt |-> clock, updatedAt |-> clock]
        IN
        IF userId = Null THEN
            /\ last' = ResponseTo(userId, "createNote", req, 401, ErrorBody("Unauthorized"))
            /\ UNCHANGED <<NOTES, entropy, created>>
        ELSE
            /\ NotesLeft
            /\ NOTES' = Put(NOTES, TsNoteKey(userId, note.id), note)
            /\ entropy' = entropy + 1
            /\ created' = created + 1
            /\ last' = IF Falsy(title) \/ Falsy(content)
                       THEN ResponseTo(userId, "createNote", req, 400,
                                       ErrorBody("Title and content are required"))
                       ELSE ResponseTo(userId, "createNote", req, 201, [note |-> note])
    /\ UNCHANGED <<impl, clock, USERS, issued, routerVars, auxVars>>

TsCreateNote(H, T, C, F) ==
    /\ impl = "ts"
    /\ \E auth \in H, title \in T, content \in C, fault \in F :
        LET req == NotesRequest("POST", "/api/notes", auth, title, content)
            userId == TsAuthenticateRequest(auth)
            note == [id |-> Uuid(entropy + 1), userId |-> userId, title |-> title,
                     content |-> content, createdAt |-> clock, updatedAt |-> clock]
        IN
        IF userId = Null THEN
            /\ last' = ResponseTo(userId, "createNote", req, 401, ErrorBody("Unauthorized"))
            /\ UNCHANGED <<NOTES, entropy, created>>
        ELSE IF Falsy(title) \/ Falsy(content) THEN
            /\ last' = ResponseTo(userId, "createNote", req, 400, ErrorBody("Title and content are required"))
            /\ UNCHANGED <<NOTES, entropy, created>>
        ELSE IF fault = 1 THEN
            /\ last' = TsInternalError(userId, "createNote", req)
            /\ UNCHANGED <<NOTES, entropy, created>>
        ELSE
            /\ NotesLeft
            /\ NOTES' = Put(NOTES, TsNoteKey(userId, note.id), note)
            /\ entropy' = entropy + 1
            /\ created' = created + 1
            /\ last' = ResponseTo(userId, "createNote", req, 201, [note |-> note])
    /\ UNCHANGED <<impl, clock, USERS, issued, routerVars, auxVars>>

\* PATHS: request paths that the router gives to the handler
TsUpdateNote(H, PATHS, T, C, F) ==
    /\ impl = "ts"
    /\ \E auth \in H, path \in PATHS, title \in T, content \in C, fault \in F :
        LET req == NotesRequest("PUT", path, auth, title, content)
            userId == TsAuthenticateRequest(auth)
            noteId == LastSegment(path)
            noteKey == TsNoteKey(userId, noteId)
        IN
        IF userId = Null THEN
            /\ last' = ResponseTo(userId, "updateNote", req, 401, ErrorBody("Unauthorized"))
            /\ UNCHANGED NOTES
        ELSE IF noteId = "" THEN
            /\ last' = ResponseTo(userId, "updateNote", req, 400, ErrorBody("Note ID is required"))
            /\ UNCHANGED NOTES
        ELSE IF Falsy(title) /\ Falsy(content) THEN
            /\ last' = ResponseTo(userId, "updateNote", req, 400,
                                ErrorBody("At least title or content must be provided"))
            /\ UNCHANGED NOTES
        ELSE IF fault = 1 THEN
            /\ last' = TsInternalError(userId, "updateNote", req)
            /\ UNCHANGED NOTES
        ELSE IF ~Has(NOTES, noteKey) THEN
            /\ last' = ResponseTo(userId, "updateNote", req, 404, ErrorBody("Note not found"))
            /\ UNCHANGED NOTES
        ELSE IF fault = 2 THEN
            /\ last' = TsInternalError(userId, "updateNote", req)
            /\ UNCHANGED NOTES
        ELSE
            LET existingNote == NOTES[noteKey]
                updatedNote == [existingNote EXCEPT
                    !.title = IF title = Undefined THEN existingNote.title ELSE title,
                    !.content = IF content = Undefined THEN existingNote.content ELSE content,
                    !.updatedAt = clock]
            IN
            /\ NOTES' = Put(NOTES, noteKey, updatedNote)
            /\ last' = ResponseTo(userId, "updateNote", req, 200, [note |-> updatedNote])
    /\ UNCHANGED <<impl, clock, entropy, created, USERS, issued, routerVars, auxVars>>

TsDeleteNote(H, PATHS, F) ==
    /\ impl = "ts"
    /\ \E auth \in H, path \in PATHS, fault \in F :
        LET req == NotesRequest("DELETE", path, auth, Undefined, Undefined)
            userId == TsAuthenticateRequest(auth)
            noteId == LastSegment(path)
            noteKey == TsNoteKey(userId, noteId)
        IN
        IF userId = Null THEN
            /\ last' = ResponseTo(userId, "deleteNote", req, 401, ErrorBody("Unauthorized"))
            /\ UNCHANGED NOTES
        ELSE IF noteId = "" THEN
            /\ last' = ResponseTo(userId, "deleteNote", req, 400, ErrorBody("Note ID is required"))
            /\ UNCHANGED NOTES
        ELSE IF fault = 1 THEN
            /\ last' = TsInternalError(userId, "deleteNote", req)
            /\ UNCHANGED NOTES
        ELSE IF ~Has(NOTES, noteKey) THEN
            /\ last' = ResponseTo(userId, "deleteNote", req, 404, ErrorBody("Note not found"))
            /\ UNCHANGED NOTES
        ELSE IF fault = 2 THEN
            /\ last' = TsInternalError(userId, "deleteNote", req)
            /\ UNCHANGED NOTES
        ELSE
            /\ NOTES' = Delete(NOTES, noteKey)
            /\ last' = ResponseTo(userId, "deleteNote", req, 200, [message |-> "Note deleted successfully"])
    /\ UNCHANGED <<impl, clock, entropy, created, USERS, issued, routerVars, auxVars>>

(***************************************************************************)
(* MiniNotesApp.handleNotes and authenticateRequest (single-file workers). *)
(***************************************************************************)
\* parts.filter(Boolean)
FilterBoolean(parts) == SelectSeq(parts, LAMBDA x : x # "")

\* handleAPI: segments = path.split('/').filter(Boolean); noteId = segments[2]
JsNoteId(path) ==
    LET segments == FilterBoolean(Split(path, "/")) IN
    IF Len(segments) >= 3 THEN segments[3] ELSE Undefined

\* what authenticateRequest gives its caller: the username or Null, the USERS
\* namespace it leaves, whether a storage call failed, and whether it ended
\* with an exception instead of returning
AuthResult(username, users, failed) ==
    [username |-> username, users |-> users, failed |-> failed, thrown |-> FALSE]

\* a lookup without the try/catch: a failing storage call ends it
JsAuthenticateRequestUncaught(header, fault) ==
    LET tokenKey == "token:" \o Slice(header, 7) IN
    IF Falsy(header) \/ ~StartsWith(header, "Bearer ") THEN AuthResult(Null, USERS, FALSE)
    ELSE IF fault = 1 THEN [AuthResult(Null, USERS, TRUE) EXCEPT !.thrown = TRUE]
    ELSE IF ~Has(USERS, tokenKey) THEN AuthResult(Null, USERS, FALSE)
    ELSE AuthResult(USERS[tokenKey].username, USERS, FALSE)

\* a lookup that does not look at expiresAt
JsAuthenticateRequestNoExpiry(header, fault) ==
    LET tokenKey == "token:" \o Slice(header, 7) IN
    IF Falsy(header) \/ ~StartsWith(header, "Bearer ") THEN AuthResult(Null, USERS, FALSE)
    ELSE IF fault = 1 THEN AuthResult(Null, USERS, TRUE)
    ELSE IF ~Has(USERS, tokenKey) THEN AuthResult(Null, USERS, FALSE)
    ELSE AuthResult(USERS[tokenKey].username, USERS, FALSE)

\* authenticateRequest.  fault: 1: the get of the token entry fails; 2: the
\* delete of an expired entry fails; 4: the text stored under the token key is
\* no JSON; the catch turns each of them into null.
\* index.js reads token:<token>, checks expiresAt and deletes an expired entry;
\* part_002 returns whatever is stored under token:<token>
JsAuthenticateRequest(header, fault) ==
    LET token == Slice(header, 7)
        tokenKey == "token:" \o token
    IN
    IF Falsy(header) \/ ~StartsWith(header, "Bearer ") THEN AuthResult(Null, USERS, FALSE)
    ELSE IF fault = 1 THEN AuthResult(Null, USERS, TRUE)
    ELSE IF ~Has(USERS, tokenKey) THEN AuthResult(Null, USERS, FALSE)
    ELSE IF impl = "js0" THEN AuthResult(USERS[tokenKey], USERS, FALSE)
    ELSE IF fault = 4 THEN AuthResult(Null, USERS, TRUE)
    ELSE IF clock > USERS[tokenKey].expiresAt THEN
        IF fault = 2 THEN AuthResult(Null, USERS, TRUE)
        ELSE AuthResult(Null, Delete(USERS, tokenKey), FALSE)
    ELSE AuthResult(USERS[tokenKey].username, USERS, FALSE)

\* notes.findIndex(note => note.id === noteId), 0 for -1
RECURSIVE FindIndexFrom(_, _, _)
FindIndexFrom(notes, noteId, i) ==
    IF i > Len(notes) THEN 0
    ELSE IF notes[i].id = noteId THEN i
    ELSE FindIndexFrom(notes, noteId, i + 1)
FindIndex(notes, noteId) == FindIndexFrom(notes, noteId, 1)

JsOp(method) ==
    CASE method = "GET" -> "getNotes"
      [] method = "POST" -> "createNote"
      [] method = "PUT" -> "updateNote"
      [] OTHER -> "deleteNote"

\* M: methods; H: Authorization headers; PATHS: request paths under /api/notes;
\* F: which storage call of the request fails (0: none).  handleNotes has no
\* try/catch and handleAPI returns its promise without awaiting it, so a
\* storage exception in handleNotes leaves fetch uncaught.
JsHandleNotes(M, H, PATHS, T, C, F) ==
    /\ impl \in {"js", "js0"}
    /\ \E method \in M, auth \in H, path \in PATHS, title \in T, content \in C, fault \in F :
        LET req == NotesRequest(method, path, auth, title, content)
            op == JsOp(method)
            noteId == JsNoteId(path)
            who == JsAuthenticateRequest(auth, fault)
            username == who.username
            notesKey == "notes:" \o username
            notes == IF Has(NOTES, notesKey) THEN NOTES[notesKey] ELSE <<>>
            newNote == [id |-> ToString(clock),
                        title |-> IF Falsy(title) THEN "Untitled Note" ELSE title,
                        content |-> IF Falsy(content) THEN "" ELSE content,
                        createdAt |-> clock, updatedAt |-> clock]
            noteIndex == FindIndex(notes, noteId)
            filteredNotes == SelectSeq(notes, LAMBDA n : n.id # noteId)
            R(status, body) == [Response(op, req, status, body) EXCEPT
                                    !.user = username, !.headers = JsJsonHeaders]
            Uncaught == [Thrown(op, req, TRUE) EXCEPT !.user = username]
        IN
        /\ USERS' = who.users
        /\ IF who.thrown THEN
               /\ last' = Thrown(op, req, who.failed)
               /\ UNCHANGED <<NOTES, created>>
           ELSE IF username = Null THEN
               /\ last' = [R(401, ErrorBody("Unauthorized")) EXCEPT !.failed = who.failed]
               /\ UNCHANGED <<NOTES, created>>
           ELSE IF method = "GET" /\ noteId = Undefined THEN
               /\ last' = IF fault = 2 THEN Uncaught ELSE R(200, notes)
               /\ UNCHANGED <<NOTES, created>>
           ELSE IF method = "POST" THEN
               IF fault = 2 \/ fault = 3 THEN
                   /\ last' = Uncaught
                   /\ UNCHANGED <<NOTES, created>>
               ELSE
                   /\ NotesLeft
                   /\ NOTES' = Put(NOTES, notesKey, Append(notes, newNote))
                   /\ created' = created + 1
                   /\ last' = R(200, newNote)
           ELSE IF method = "PUT" /\ noteId # Undefined THEN
               IF fault = 2 THEN
                   /\ last' = Uncaught
                   /\ UNCHANGED <<NOTES, created>>
               ELSE IF noteIndex = 0 THEN
                   /\ last' = R(404, ErrorBody("Note not found"))
                   /\ UNCHANGED <<NOTES, created>>
               ELSE IF fault = 3 THEN
                   /\ last' = Uncaught
                   /\ UNCHANGED <<NOTES, created>>
               ELSE
                   LET old == notes[noteIndex]
                       new == [old EXCEPT
                           !.title = IF Falsy(title) THEN old.title ELSE title,
                           !.content = IF content # Undefined THEN content ELSE old.content,
                           !.updatedAt = clock]
                   IN
                   /\ NOTES' = Put(NOTES, notesKey, [notes EXCEPT ![noteIndex] = new])
                   /\ last' = R(200, new)
                   /\ UNCHANGED created
           ELSE IF method = "DELETE" /\ noteId # Undefined THEN
               IF fault = 2 THEN
                   /\ last' = Uncaught
                   /\ UNCHANGED <<NOTES, created>>
               ELSE IF Len(filteredNotes) = Len(notes) THEN
                   /\ last' = R(404, ErrorBody("Note not found"))
                   /\ UNCHANGED <<NOTES, created>>
               ELSE IF fault = 3 THEN
                   /\ last' = Uncaught
                   /\ UNCHANGED <<NOTES, created>>
               ELSE
                   /\ NOTES' = Put(NOTES, notesKey, filteredNotes)
                   /\ last' = R(200, [success |-> TRUE])
                   /\ UNCHANGED created
           ELSE
               /\ last' = WithHeaders(R(405, "Method not allowed"), CORS_HEADERS)
               /\ UNCHANGED <<NOTES, created>>
    /\ UNCHANGED <<impl, clock, entropy, issued, routerVars, auxVars>>

(***************************************************************************)
(* Router (TypeScript worker).                                             *)
(***************************************************************************)
\* get / post / put / delete: push a route
Route(method, path, handler) == [method |-> method, path |-> path, handler |-> handler]

RoutesLeft == Len(routes) < MaxRoutes

RouterGet(PATTERNS, HANDLERS) ==
    /\ RoutesLeft
    /\ \E path \in PATTERNS, handler \in HANDLERS :
        routes' = Append(routes, Route("GET", path, handler))
    /\ UNCHANGED <<impl, clock, entropy, created, USERS, NOTES, issued, last, routed, matched, auxVars>>

RouterPost(PATTERNS, HANDLERS) ==
    /\ RoutesLeft
    /\ \E path \in PATTERNS, handler \in HANDLERS :
        routes' = Append(routes, Route("POST", path, handler))
    /\ UNCHANGED <<impl, clock, entropy, created, USERS, NOTES, issued, last, routed, matched, auxVars>>

RouterPut(PATTERNS, HANDLERS) ==
    /\ RoutesLeft
    /\ \E path \in PATTERNS, handler \in HANDLERS :
        routes' = Append(routes, Route("PUT", path, handler))
    /\ UNCHANGED <<impl, clock, entropy, created, USERS, NOTES, issued, last, routed, matched, auxVars>>

RouterDelete(PATTERNS, HANDLERS) ==
    /\ RoutesLeft
    /\ \E path \in PATTERNS, handler \in HANDLERS :
        routes' = Append(routes, Route("DELETE", path, handler))
    /\ UNCHANGED <<impl, clock, entropy, created, USERS, NOTES, issued, last, routed, matched, auxVars>>

\* a comparison that stops at the shorter of the two lists
matchPathNoLength(routePath, requestPath) ==
    LET routeParts == FilterBoolean(Split(routePath, "/"))
        requestParts == FilterBoolean(Split(requestPath, "/"))
    IN
    \A i \in 1..Len(routeParts) :
        i <= Len(requestParts) =>
            (StartsWith(routeParts[i], ":") \/ routeParts[i] = requestParts[i])

\* matchPath: segment-wise comparison of the non-empty pieces
matchPath(routePath, requestPath) ==
    LET routeParts == FilterBoolean(Split(routePath, "/"))
        requestParts == FilterBoolean(Split(requestPath, "/"))
    IN
    /\ Len(routeParts) = Len(requestParts)
    /\ \A i \in 1..Len(routeParts) :
        StartsWith(routeParts[i], ":") \/ routeParts[i] = requestParts[i]

\* the loop of getPathParams from index i on: params[paramName] = requestParts[i]
RECURSIVE PathParamsFrom(_, _, _, _)
PathParamsFrom(routeParts, requestParts, i, params) ==
    IF i > Len(routeParts) THEN params
    ELSE IF StartsWith(routeParts[i], ":") THEN
        PathParamsFrom(routeParts, requestParts, i + 1,
                       Put(params, Slice(routeParts[i], 1),
                           IF i <= Len(requestParts) THEN requestParts[i] ELSE Undefined))
    ELSE PathParamsFrom(routeParts, requestParts, i + 1, params)

\* a mapping whose keys keep the colon
getPathParamsColon(routePath, requestPath) ==
    LET routeParts == FilterBoolean(Split(routePath, "/"))
        requestParts == FilterBoolean(Split(requestPath, "/"))
        named == {i \in 1..Len(routeParts) : StartsWith(routeParts[i], ":")}
    IN
    [name \in {routeParts[i] : i \in named} |->
        requestParts[CHOOSE i \in named : routeParts[i] = name]]

getPathParams(routePath, requestPath) ==
    PathParamsFrom(FilterBoolean(Split(routePath, "/")),
                   FilterBoolean(Split(requestPath, "/")), 1, EmptyKV)

\* the index of the last route of the method whose pattern matches, 0 if none
FindRouteLast(method, path, i) ==
    LET found == {j \in i..Len(routes) :
                    routes[j].method = method /\ matchPath(routes[j].path, path)}
    IN IF found = {} THEN 0 ELSE CHOOSE j \in found : \A k \in found : k <= j

\* routes.find(r => r.method === method && matchPath(r.path, path)): the index
\* of the first such route from i on, 0 if none
RECURSIVE FindRouteFrom(_, _, _)
FindRouteFrom(method, path, i) ==
    IF i > Len(routes) THEN 0
    ELSE IF routes[i].method = method /\ matchPath(routes[i].path, path) THEN i
    ELSE FindRouteFrom(method, path, i + 1)

\* the record of a request given to handle: the handlers it invoked, in order,
\* and the response
\*   error:  the message of the exception the invoked handler raised, Null if none
\*   thrown: handle itself ended with an exception (no response)
Routed(method, path, invoked, status, body) ==
    [method |-> method, path |-> path, invoked |-> invoked, status |-> status, body |-> body,
     headers |-> AllowOrigin, error |-> Null, thrown |-> FALSE]

NotRouted == [Routed("none", "", <<>>, 0, "") EXCEPT !.headers = NoHeaders]

\* a catch that answers with the message of the exception
RouteHandlerErrorLeaks(method, path, handler, message) ==
    [Routed(method, path, <<handler>>, 500, ErrorBody(message)) EXCEPT
        !.headers = TsJsonHeaders, !.error = message]

\* the catch of handle: the exception is logged and answered with a fixed body
RouteHandlerError(method, path, handler, message) ==
    [Routed(method, path, <<handler>>, 500, ErrorBody("Route handler error")) EXCEPT
        !.headers = TsJsonHeaders, !.error = message]

\* handle, for a request drawn from M x PATHS; O: what the invoked handler does
\* ("ok": it answers 200; any other text: it throws an Error with this message)
Handle(M, PATHS, O) ==
    /\ \E method \in M, path \in PATHS, outcome \in O :
        LET r == FindRouteFrom(method, path, 1) IN
        routed' =
            IF method = "OPTIONS"
            THEN [Routed(method, path, <<>>, 200, Null) EXCEPT !.headers = CORS_HEADERS]
            ELSE IF r # 0 THEN
                IF outcome # "ok"
                THEN RouteHandlerError(method, path, routes[r].handler, outcome)
                ELSE Routed(method, path, <<routes[r].handler>>, 200, routes[r].handler)
            ELSE Routed(method, path, <<>>, 404, "Not found")
    /\ UNCHANGED <<impl, clock, entropy, created, USERS, NOTES, issued, last, routes, matched, auxVars>>

\* '/'-joined pieces: the text whose split('/') gives the pieces back
RECURSIVE Join(_)
Join(pieces) ==
    IF Len(pieces) = 1 THEN pieces[1]
    ELSE pieces[1] \o "/" \o Join(Tail(pieces))

\* a pattern and a path, written as their pieces, on which matchPath and
\* getPathParams have not been called yet
Unmatched(routePieces, requestPieces) ==
    [routePieces |-> routePieces, requestPieces |-> requestPieces, called |-> FALSE,
     routePath |-> "", requestPath |-> "", result |-> FALSE, params |-> EmptyKV]

\* the record of a call of matchPath and getPathParams on the same pair; the
\* pieces the two texts were written from are kept beside the texts
Matched(routePieces, requestPieces) ==
    [routePieces |-> routePieces, requestPieces |-> requestPieces, called |-> TRUE,
     routePath |-> Join(routePieces), requestPath |-> Join(requestPieces),
     result |-> matchPath(Join(routePieces), Join(requestPieces)),
     params |-> getPathParams(Join(routePieces), Join(requestPieces))]

NotMatched == Unmatched(<<>>, <<>>)

\* matchPath and getPathParams applied to the pattern and the path
MatchPath ==
    /\ ~matched.called
    /\ matched.routePieces # <<>>
    /\ matched' = Matched(matched.routePieces, matched.requestPieces)
    /\ UNCHANGED <<impl, clock, entropy, created, USERS, NOTES, issued, last, routes, routed, auxVars>>

(***************************************************************************)
(* fetch of the TypeScript worker: a new router with the eight routes, and *)
(* handle on the request.                                                  *)
(***************************************************************************)
\* part_001:53-64  the routes, in the order of their registration
TsRoutes ==
    <<Route("POST", "/api/auth/login", "login"),
      Route("POST", "/api/auth/register", "register"),
      Route("GET", "/api/notes", "getNotes"),
      Route("POST", "/api/notes", "createNote"),
      Route("PUT", "/api/notes/:id", "updateNote"),
      Route("DELETE", "/api/notes/:id", "deleteNote"),
      Route("GET", "/", "serveIndex"),
      Route("GET", "/index.html", "serveIndex")>>

\* rs.find(r => r.method === method && matchPath(r.path, path)) from i on
RECURSIVE FindIn(_, _, _, _)
FindIn(rs, method, path, i) ==
    IF i > Len(rs) THEN 0
    ELSE IF rs[i].method = method /\ matchPath(rs[i].path, path) THEN i
    ELSE FindIn(rs, method, path, i + 1)

\* the handler that handle selects for the request, Null if no route matches
TsHandlerOf(method, path) ==
    LET r == FindIn(TsRoutes, method, path, 1) IN
    IF r = 0 THEN Null ELSE TsRoutes[r].handler

\* the response to a request that reaches no controller
Plain(op, method, path, auth, status, body, headers) ==
    WithHeaders(Response(op, NotesRequest(method, path, auth, Undefined, Undefined),
                         status, body), headers)

\* last is replaced and nothing else changes
Answer(response) ==
    /\ last' = response
    /\ UNCHANGED <<impl, clock, entropy, created, USERS, NOTES, issued, routerVars, auxVars>>

\* M: methods; PATHS: request paths; H: Authorization headers; U, P: fields of
\* an auth body; T, C: fields of a notes body; F: which storage call fails
TsFetch(M, PATHS, H, U, P, T, C, F) ==
    /\ impl = "ts"
    /\ \E method \in M, path \in PATHS :
        LET handler == IF method = "OPTIONS" THEN "preflight" ELSE TsHandlerOf(method, path) IN
        \/ /\ handler = "preflight"
           /\ \E auth \in H : Answer(Plain("preflight", method, path, auth, 200, Null, CORS_HEADERS))
        \/ /\ handler = Null
           /\ \E auth \in H : Answer(Plain("notFound", method, path, auth, 404, "Not found", AllowOrigin))
        \/ /\ handler = "serveIndex"
           /\ \E auth \in H :
                Answer(Plain("serveIndex", method, path, auth, 200, "<!DOCTYPE html>",
                             ContentType("text/html") @@ AllowOrigin))
        \/ handler = "login" /\ TsLogin(U, P, F)
        \/ handler = "register" /\ TsRegister(U, P, F)
        \/ handler = "getNotes" /\ TsGetNotes(H, F)
        \/ handler = "createNote" /\ TsCreateNote(H, T, C, F)
        \/ handler = "updateNote" /\ TsUpdateNote(H, {path}, T, C, F)
        \/ handler = "deleteNote" /\ TsDeleteNote(H, {path}, F)

(***************************************************************************)
(* fetch of the single-file worker: handleRequest and handleAPI.           *)
(***************************************************************************)
\* segments[i] of handleAPI (0-based i), Undefined past the end
Segment(path, i) ==
    LET segments == FilterBoolean(Split(path, "/")) IN
    IF Len(segments) > i THEN segments[i + 1] ELSE Undefined

\* a dispatch that looks at the path before it looks at the method
JsHandlerOfPathFirst(method, path) ==
    IF path = "/" \/ path = "/index.html" THEN "serveHTML"
    ELSE IF ~StartsWith(path, "/api/") THEN
        IF method = "OPTIONS" THEN "preflight" ELSE "notFound"
    ELSE IF Segment(path, 1) = "notes" THEN "handleNotes"
    ELSE IF method = "OPTIONS" THEN "preflight"
    ELSE "apiNotFound"

\* where handleRequest and handleAPI send the request
JsHandlerOf(method, path) ==
    IF method = "OPTIONS" THEN "preflight"
    ELSE IF path = "/" \/ path = "/index.html" THEN "serveHTML"
    ELSE IF ~StartsWith(path, "/api/") THEN "notFound"
    ELSE IF Segment(path, 1) = "auth" THEN
        IF method = "POST" /\ Segment(path, 2) \in {"login", "register"}
        THEN "handleAuth" ELSE "authNotAllowed"
    ELSE IF Segment(path, 1) = "notes" THEN "handleNotes"
    ELSE "apiNotFound"

JsFetch(M, PATHS, H, U, P, T, C, F) ==
    /\ impl \in {"js", "js0"}
    /\ \E method \in M, path \in PATHS :
        LET handler == JsHandlerOf(method, path) IN
        \/ /\ handler = "preflight"
           /\ \E auth \in H : Answer(Plain("preflight", method, path, auth, 200, Null, CORS_HEADERS))
        \/ /\ handler = "serveHTML"
           /\ \E auth \in H :
                Answer(Plain("serveIndex", method, path, auth, 200, "<!DOCTYPE html>",
                             CORS_HEADERS @@ ContentType("text/html")))
        \/ /\ handler = "notFound"
           /\ \E auth \in H : Answer(Plain("notFound", method, path, auth, 404, "Not found", CORS_HEADERS))
        \/ /\ handler = "apiNotFound"
           /\ \E auth \in H :
                Answer(Plain("notFound", method, path, auth, 404, "API route not found", CORS_HEADERS))
        \/ /\ handler = "authNotAllowed"
           /\ \E auth \in H :
                Answer(Plain("notAllowed", method, path, auth, 405, "Method not allowed", CORS_HEADERS))
        \/ handler = "handleAuth" /\ JsHandleAuth({Segment(path, 2)}, U, P, F)
        \/ handler = "handleNotes" /\ JsHandleNotes({method}, H, {path}, T, C, F)

(***************************************************************************)
(* The parts of the state outside the sequential worker, before anything   *)
(* happens in them.                                                        *)
(***************************************************************************)
\* the slots of the requests that the worker handles at the same time
Procs == {1, 2}

\* the progress of a request whose handler is suspended at an await:
\*   phase:    "idle" (no request), "write" (the handler has read the key and
\*             waits to write it) or "done" (the response is returned)
\*   key, value: the key the handler writes next and the record it built
\*   after:    the slots whose write of the same key ran before this one's
Slot(phase, op, req, user, key, value, response, after) ==
    [phase |-> phase, op |-> op, req |-> req, user |-> user, key |-> key,
     value |-> value, response |-> response, after |-> after]

\* a slot with no request in flight
Idle == Slot("idle", "none", Null, Null, Null, Null, NoRequest, {})

NonePending == [p \in Procs |-> Idle]

\* a MiniNotesApp constructed with both KV namespaces: no map is created
\*   kv: env.NOTES and env.USERS are provided;  map: this.memoryStorage
NoMemoryStorage == [kv |-> TRUE, map |-> EmptyKV]

\* a call slot of the store with no request in flight
NoCall == [action |-> "none", id |-> Null]

\* notesStore.ts:33-36  the initial state of the store, with no request in flight
\*   inflight: call slot -> the store action whose fetch is awaited, and its id
EmptyStore == [notes |-> <<>>, currentNote |-> Null, isLoading |-> FALSE, error |-> Null,
               inflight |-> [c \in Procs |-> NoCall]]

(***************************************************************************)
(* Handlers of the workers run at the same time as other requests: a       *)
(* handler runs without interruption up to the await of its last storage   *)
(* read, and its write runs as a later step; each get, put and delete of a *)
(* key is atomic.                                                          *)
(***************************************************************************)
clientVars == <<page, notesStore, memoryStorage>>

\* the handler in slot p returns the response without writing
Returned(p, op, req, user, response) ==
    Slot("done", op, req, user, Null, Null, response, {})

\* the handler in slot p has read the key and is about to write the value
Suspended(p, op, req, user, key, value) ==
    Slot("write", op, req, user, key, value, NoRequest, {})

\* the slots whose write of the key has run
Wrote(key) == {q \in Procs : pending[q].phase = "done" /\ pending[q].key = key}

\* the handler in slot p has written its key and returns the response
Written(p, response) ==
    [pending[p] EXCEPT !.phase = "done", !.response = response, !.after = Wrote(pending[p].key)]

\* updateNote up to the get of the note (notes.ts:90-124)
TsUpdateNoteGet(p, H, PATHS, T, C) ==
    /\ impl = "ts"
    /\ pending[p].phase = "idle"
    /\ \E auth \in H, path \in PATHS, title \in T, content \in C :
        LET req == NotesRequest("PUT", path, auth, title, content)
            userId == TsAuthenticateRequest(auth)
            noteId == LastSegment(path)
            noteKey == TsNoteKey(userId, noteId)
            Reject(status, msg) ==
                LET r == ResponseTo(userId, "updateNote", req, status, ErrorBody(msg)) IN
                /\ pending' = [pending EXCEPT ![p] = Returned(p, "updateNote", req, userId, r)]
                /\ last' = r
        IN
        IF userId = Null THEN Reject(401, "Unauthorized")
        ELSE IF noteId = "" THEN Reject(400, "Note ID is required")
        ELSE IF Falsy(title) /\ Falsy(content) THEN
            Reject(400, "At least title or content must be provided")
        ELSE IF ~Has(NOTES, noteKey) THEN Reject(404, "Note not found")
        ELSE
            LET existingNote == NOTES[noteKey]
                updatedNote == [existingNote EXCEPT
                    !.title = IF title = Undefined THEN existingNote.title ELSE title,
                    !.content = IF content = Undefined THEN existingNote.content ELSE content,
                    !.updatedAt = clock]
            IN
            /\ pending' = [pending EXCEPT
                              ![p] = Suspended(p, "updateNote", req, userId, noteKey, updatedNote)]
            /\ UNCHANGED last
    /\ UNCHANGED <<impl, clock, entropy, created, USERS, NOTES, issued, routerVars, clientVars>>

\* updateNote from the put of the note (notes.ts:126-128)
TsUpdateNotePut(p) ==
    /\ impl = "ts"
    /\ pending[p].phase = "write"
    /\ pending[p].op = "updateNote"
    /\ LET r == ResponseTo(pending[p].user, "updateNote", pending[p].req, 200,
                           [note |-> pending[p].value])
       IN
       /\ NOTES' = Put(NOTES, pending[p].key, pending[p].value)
       /\ pending' = [pending EXCEPT ![p] = Written(p, r)]
       /\ last' = r
    /\ UNCHANGED <<impl, clock, entropy, created, USERS, issued, routerVars, clientVars>>

\* deleteNote up to the get of the note (notes.ts:136-156)
TsDeleteNoteGet(p, H, PATHS) ==
    /\ impl = "ts"
    /\ pending[p].phase = "idle"
    /\ \E auth \in H, path \in PATHS :
        LET req == NotesRequest("DELETE", path, auth, Undefined, Undefined)
            userId == TsAuthenticateRequest(auth)
            noteId == LastSegment(path)
            noteKey == TsNoteKey(userId, noteId)
            Reject(status, msg) ==
                LET r == ResponseTo(userId, "deleteNote", req, status, ErrorBody(msg)) IN
                /\ pending' = [pending EXCEPT ![p] = Returned(p, "deleteNote", req, userId, r)]
                /\ last' = r
        IN
        IF userId = Null THEN Reject(401, "Unauthorized")
        ELSE IF noteId = "" THEN Reject(400, "Note ID is required")
        ELSE IF ~Has(NOTES, noteKey) THEN Reject(404, "Note not found")
        ELSE
            /\ pending' = [pending EXCEPT
                              ![p] = Suspended(p, "deleteNote", req, userId, noteKey, Null)]
            /\ UNCHANGED last
    /\ UNCHANGED <<impl, clock, entropy, created, USERS, NOTES, issued, routerVars, clientVars>>

\* deleteNote from the delete of the key (notes.ts:158-161)
TsDeleteNoteDelete(p) ==
    /\ impl = "ts"
    /\ pending[p].phase = "write"
    /\ pending[p].op = "deleteNote"
    /\ LET r == ResponseTo(pending[p].user, "deleteNote", pending[p].req, 200,
                           [message |-> "Note deleted successfully"])
       IN
       /\ NOTES' = Delete(NOTES, pending[p].key)
       /\ pending' = [pending EXCEPT ![p] = Written(p, r)]
       /\ last' = r
    /\ UNCHANGED <<impl, clock, entropy, created, USERS, issued, routerVars, clientVars>>

\* register up to the creation of the user record (auth.ts:70-99)
TsRegisterGet(p, U, P) ==
    /\ impl = "ts"
    /\ pending[p].phase = "idle"
    /\ \E username \in U, password \in P :
        LET req == AuthRequest("register", username, password)
            user == [id |-> Uuid(entropy + 1), username |-> username,
                     passwordHash |-> BcryptHash(password, 12), createdAt |-> clock]
            Reject(status, msg) ==
                LET r == WithHeaders(Response("register", req, status, ErrorBody(msg)),
                                     TsJsonHeaders) IN
                /\ pending' = [pending EXCEPT ![p] = Returned(p, "register", req, Null, r)]
                /\ last' = r
                /\ UNCHANGED entropy
        IN
        IF Falsy(username) \/ Falsy(password) THEN
            Reject(400, "Username and password are required")
        ELSE IF Len(password) < MinPasswordLength THEN
            Reject(400, "Password must be at least 6 characters")
        ELSE IF Has(USERS, username) THEN Reject(409, "Username already exists")
        ELSE
            /\ pending' = [pending EXCEPT
                              ![p] = Suspended(p, "register", req, Null, username, user)]
            /\ entropy' = entropy + 1
            /\ UNCHANGED last
    /\ UNCHANGED <<impl, clock, created, USERS, NOTES, issued, routerVars, clientVars>>

\* register from the put of the user record (auth.ts:101-114)
TsRegisterPut(p) ==
    /\ impl = "ts"
    /\ pending[p].phase = "write"
    /\ pending[p].op = "register"
    /\ TokensLeft
    /\ LET user == pending[p].value
           token == TsGenerateToken(user.id, clock, entropy + 1)
           r == WithHeaders(Response("register", pending[p].req, 201,
                                     [token |-> token, user |-> PublicUser(user)]),
                            TsJsonHeaders)
       IN
       /\ USERS' = Put(USERS, pending[p].key, user)
       /\ entropy' = entropy + 1
       /\ issued' = Put(issued, token, [username |-> user.username, principal |-> user.id,
                                        at |-> clock])
       /\ pending' = [pending EXCEPT ![p] = Written(p, r)]
       /\ last' = r
    /\ UNCHANGED <<impl, clock, created, NOTES, routerVars, clientVars>>

\* handleNotes, POST, up to the push of the new note (index.js:190-227)
JsCreateNoteGet(p, H, T, C) ==
    /\ impl = "js"
    /\ pending[p].phase = "idle"
    /\ \E auth \in H, title \in T, content \in C :
        LET req == NotesRequest("POST", "/api/notes", auth, title, content)
            who == JsAuthenticateRequest(auth, 0)
            username == who.username
            notesKey == "notes:" \o username
            notes == IF Has(NOTES, notesKey) THEN NOTES[notesKey] ELSE <<>>
            newNote == [id |-> ToString(clock),
                        title |-> IF Falsy(title) THEN "Untitled Note" ELSE title,
                        content |-> IF Falsy(content) THEN "" ELSE content,
                        createdAt |-> clock, updatedAt |-> clock]
            r == [Response("createNote", req, 401, ErrorBody("Unauthorized")) EXCEPT
                      !.headers = JsJsonHeaders]
        IN
        /\ USERS' = who.users
        /\ IF username = Null THEN
               /\ pending' = [pending EXCEPT ![p] = Returned(p, "createNote", req, Null, r)]
               /\ last' = r
           ELSE
               /\ pending' = [pending EXCEPT
                                 ![p] = Suspended(p, "createNote", req, username, notesKey,
                                                  Append(notes, newNote))]
               /\ UNCHANGED last
    /\ UNCHANGED <<impl, clock, entropy, created, NOTES, issued, routerVars, clientVars>>

\* handleNotes, POST, from the put of the list (index.js:229-233)
JsCreateNotePut(p) ==
    /\ impl = "js"
    /\ pending[p].phase = "write"
    /\ pending[p].op = "createNote"
    /\ NotesLeft
    /\ LET notes == pending[p].value
           r == [Response("createNote", pending[p].req, 200, notes[Len(notes)]) EXCEPT
                     !.user = pending[p].user, !.headers = JsJsonHeaders]
       IN
       /\ NOTES' = Put(NOTES, pending[p].key, notes)
       /\ created' = created + 1
       /\ pending' = [pending EXCEPT ![p] = Written(p, r)]
       /\ last' = r
    /\ UNCHANGED <<impl, clock, entropy, USERS, issued, routerVars, clientVars>>

\* the client of slot p has its response: the slot is free for another request
Deliver(p) ==
    /\ pending[p].phase = "done"
    /\ pending' = [q \in Procs |->
                      IF q = p THEN Idle ELSE [pending[q] EXCEPT !.after = @ \ {p}]]
    /\ UNCHANGED <<impl, clock, entropy, created, USERS, NOTES, issued, last,
                   routerVars, clientVars>>

(***************************************************************************)
(* The single-page client of index.js.  The worker is seen through its     *)
(* responses: page.remote is the list that its successful responses have   *)
(* reported for the user.                                                  *)
(*   currentUser, currentNote, notes, saveTimeout: the script's globals    *)
(*       (saveTimeout: TRUE while the debounce timer is armed)             *)
(*   noteTitle, noteContent: the values of the two inputs                  *)
(*   edit: the latest input event that no firing of the timer has followed *)
(*   sent: the PUT that the last firing of the timer sent, if any          *)
(***************************************************************************)
PageNote(id, title, content) == [id |-> id, title |-> title, content |-> content]

\* currentNote = null; no edit; no PUT
NoNote == PageNote(Null, Null, Null)

\* the page after DOMContentLoaded without a stored token: the auth modal
LoadedPage ==
    [loaded |-> TRUE, currentUser |-> Null, currentNote |-> NoNote, notes |-> <<>>,
     noteTitle |-> "", noteContent |-> "", saveTimeout |-> FALSE,
     edit |-> NoNote, sent |-> NoNote, remote |-> <<>>]

\* the page before it is loaded
NoPage == [LoadedPage EXCEPT !.loaded = FALSE]

PageVarsOnly == <<impl, entropy, created, USERS, NOTES, issued, last, routerVars,
                  pending, notesStore, memoryStorage>>

\* the page is opened
PageLoad ==
    /\ impl = "js"
    /\ ~page.loaded
    /\ page' = LoadedPage
    /\ UNCHANGED <<clock, PageVarsOnly>>

\* handleAuth with an accepted answer: currentUser = data, showApp, loadNotes
PageHandleAuth ==
    /\ impl = "js"
    /\ page.loaded
    /\ page.currentUser = Null
    /\ page' = [page EXCEPT !.currentUser = "alice", !.notes = page.remote]
    /\ UNCHANGED <<clock, PageVarsOnly>>

PageLoggedIn == impl = "js" /\ page.loaded /\ page.currentUser # Null

\* logout: the globals are reset; the timer is left as it is
PageLogout ==
    /\ PageLoggedIn
    /\ page' = [page EXCEPT !.currentUser = Null, !.currentNote = NoNote, !.notes = <<>>]
    /\ UNCHANGED <<clock, PageVarsOnly>>

\* selectNote(note): the note becomes the current one and fills the inputs
SelectNote(pg, note) ==
    [pg EXCEPT !.currentNote = note, !.noteTitle = note.title, !.noteContent = note.content]

\* a click on a note of the list
PageSelectNote ==
    /\ PageLoggedIn
    /\ \E i \in 1..Len(page.notes) : page' = SelectNote(page, page.notes[i])
    /\ UNCHANGED <<clock, PageVarsOnly>>

\* createNote: POST /api/notes; with an ok answer the new note is put at the
\* head of the list and selected.  The worker names the note after its clock.
PageCreateNote ==
    /\ PageLoggedIn
    /\ Len(page.remote) < MaxNotes
    /\ \E ok \in BOOLEAN :
        LET first == Len(page.notes) = 0
            newNote == PageNote(ToString(clock),
                                IF first THEN "Welcome to Mini Notes" ELSE "Untitled Note",
                                IF first THEN "# Welcome to Mini Notes!" ELSE "")
        IN
        page' = IF ok THEN [SelectNote(page, newNote) EXCEPT
                                !.notes = <<newNote>> \o page.notes,
                                !.remote = Append(page.remote, newNote)]
                ELSE page
    /\ UNCHANGED <<clock, PageVarsOnly>>

\* an input event on noteTitle or noteContent: autoSave restarts the timer.
\* TITLES, CONTENTS: what the input holds after the event
PageInput(TITLES, CONTENTS) ==
    /\ PageLoggedIn
    /\ page.currentNote # NoNote
    /\ \E field \in {"noteTitle", "noteContent"} :
        \E value \in (IF field = "noteTitle" THEN TITLES ELSE CONTENTS) :
            LET typed == [page EXCEPT ![field] = value] IN
            /\ typed # page
            /\ page' = [typed EXCEPT
                            !.saveTimeout = TRUE,
                            !.edit = PageNote(page.currentNote.id, typed.noteTitle,
                                              typed.noteContent)]
    /\ UNCHANGED <<clock, PageVarsOnly>>

\* notes[noteIndex] = updatedNote for the first note with the id
RECURSIVE ReplaceFirst(_, _)
ReplaceFirst(notes, note) ==
    IF notes = <<>> THEN <<>>
    ELSE IF Head(notes).id = note.id THEN <<note>> \o Tail(notes)
    ELSE <<Head(notes)>> \o ReplaceFirst(Tail(notes), note)

\* the timer fires: saveNote.  Without a current note nothing is sent;
\* otherwise the PUT names the note that is current now and carries what the
\* inputs hold now.
PageSaveNote ==
    /\ impl = "js"
    /\ page.loaded
    /\ page.saveTimeout
    /\ IF page.currentNote = NoNote THEN
           page' = [page EXCEPT !.saveTimeout = FALSE, !.edit = NoNote, !.sent = NoNote]
       ELSE
           \E ok \in BOOLEAN :
               LET title == IF Falsy(page.noteTitle) THEN "Untitled Note" ELSE page.noteTitle
                   put == PageNote(page.currentNote.id, title, page.noteContent)
                   found == \E i \in 1..Len(page.notes) : page.notes[i].id = put.id
               IN
               page' = [page EXCEPT
                           !.saveTimeout = FALSE, !.edit = NoNote, !.sent = put,
                           !.remote = IF ok THEN ReplaceFirst(@, put) ELSE @,
                           !.notes = IF ok THEN ReplaceFirst(@, put) ELSE @,
                           !.currentNote = IF ok /\ found THEN put ELSE @]
    /\ UNCHANGED <<clock, PageVarsOnly>>

\* time passes on the worker that answers the page
PageTick ==
    /\ impl = "js"
    /\ page.loaded
    /\ clock < MaxClock
    /\ clock' = clock + 1
    /\ UNCHANGED <<page, PageVarsOnly>>

(***************************************************************************)
(* index.js without KV namespaces: the in-memory storage for development.  *)
(***************************************************************************)
\* new MiniNotesApp(env) with env.NOTES and env.USERS undefined: a new Map
NewMiniNotesApp == [kv |-> FALSE, map |-> EmptyKV]

\* the key of the map; namespace and this.NOTES are both undefined, so
\* namespace === this.NOTES holds for either namespace
MemoryKey(key) == "NOTES:" \o key

DevVarsOnly == <<impl, clock, created, USERS, NOTES, routerVars, pending, page, notesStore>>

\* fetch: a MiniNotesApp is constructed for the request and handles it;
\* handleAuth on the app's map
DevHandleAuth(A, U, P) ==
    /\ impl = "js"
    /\ ~memoryStorage.kv
    /\ \E action \in A, username \in U, password \in P :
        LET app == NewMiniNotesApp
            req == AuthRequest(action, username, password)
            R(status, body) == WithHeaders(Response(action, req, status, body), JsJsonHeaders)
            userKey == MemoryKey("user:" \o Tpl(username))
            token == JsToken(username, clock, entropy + 1)
            tokenKey == MemoryKey("token:" \o token)
            grant == [username |-> username, principal |-> username, at |-> clock]
            userData == [username |-> username, passwordHash |-> BcryptHash(password, 10),
                         createdAt |-> clock]
            Granted(map) ==
                /\ TokensLeft \/ Has(issued, token)
                /\ memoryStorage' = [app EXCEPT
                       !.map = Put(map, tokenKey, JsTokenData(username, clock))]
                /\ entropy' = entropy + 1
                /\ issued' = Put(issued, token, grant)
                /\ last' = R(200, [token |-> token, username |-> username])
            Refused(status, msg) ==
                /\ memoryStorage' = app
                /\ last' = R(status, ErrorBody(msg))
                /\ UNCHANGED <<entropy, issued>>
        IN
        IF action = "login" THEN
            IF ~Has(app.map, userKey) THEN Refused(401, "Invalid credentials")
            ELSE IF ~BcryptCompare(password, app.map[userKey].passwordHash)
                 THEN Refused(401, "Invalid credentials")
            ELSE Granted(app.map)
        ELSE
            IF Falsy(username) \/ Falsy(password) THEN Refused(400, "Username and password required")
            ELSE IF Has(app.map, userKey) THEN Refused(400, "Username already exists")
            ELSE Granted(Put(app.map, userKey, userData))
    /\ UNCHANGED DevVarsOnly

\* fetch: a MiniNotesApp is constructed for the request and handles it;
\* handleNotes on the app's map.  POST writes with this.NOTES.put, and
\* this.NOTES is undefined.
DevHandleNotes(M, H) ==
    /\ impl = "js"
    /\ ~memoryStorage.kv
    /\ \E method \in M, auth \in H :
        LET app == NewMiniNotesApp
            req == NotesRequest(method, "/api/notes", auth, "T1", "C1")
            op == JsOp(method)
            tokenKey == MemoryKey("token:" \o Slice(auth, 7))
            username ==
                IF Falsy(auth) \/ ~StartsWith(auth, "Bearer ") THEN Null
                ELSE IF ~Has(app.map, tokenKey) THEN Null
                ELSE IF clock > app.map[tokenKey].expiresAt THEN Null
                ELSE app.map[tokenKey].username
            notesKey == MemoryKey("notes:" \o username)
            notes == IF Has(app.map, notesKey) THEN app.map[notesKey] ELSE <<>>
            R(status, body) == [Response(op, req, status, body) EXCEPT
                                    !.user = username, !.headers = JsJsonHeaders]
        IN
        /\ memoryStorage' = app
        /\ last' = IF username = Null THEN R(401, ErrorBody("Unauthorized"))
                   ELSE IF method = "GET" THEN R(200, notes)
                   ELSE [Thrown(op, req, FALSE) EXCEPT !.user = username]
    /\ UNCHANGED <<entropy, issued, DevVarsOnly>>

\* time passes between two requests
DevTick ==
    /\ impl = "js"
    /\ ~memoryStorage.kv
    /\ clock < MaxClock
    /\ clock' = clock + 1
    /\ UNCHANGED <<impl, entropy, created, USERS, NOTES, issued, last, routerVars, auxVars>>

(***************************************************************************)
(* The notes store of the React frontend (notesStore.ts).  The worker is   *)
(* seen through its responses, which are inputs of the settling step.      *)
(***************************************************************************)
StoreNote(id, title) == [id |-> id, title |-> title]

StoreVarsOnly == <<impl, clock, entropy, created, USERS, NOTES, issued, last, routerVars,
                   pending, page, memoryStorage>>

\* set(partial): the fields of the partial state replace those of the store
StoreSet(field, value) ==
    notesStore' = [notesStore EXCEPT ![field] = value]

\* the list of the store and the creations in flight stay within the bound
StoreNotesLeft ==
    Len(notesStore.notes)
        + Cardinality({c \in Procs : notesStore.inflight[c].action = "createNote"}) < MaxNotes

\* an action of the store is called and runs to its await of fetch.
\* NAMES: the actions; TOKENS: the token of the auth store at the call; IDS: the id argument
StoreCall(c, NAMES, TOKENS, IDS) ==
    /\ impl = "ts"
    /\ notesStore.inflight[c] = NoCall
    /\ \E action \in NAMES, token \in TOKENS, id \in IDS :
        /\ action = "createNote" => StoreNotesLeft
        /\ IF token = Null THEN StoreSet("error", "Not authenticated")
           ELSE notesStore' = [notesStore EXCEPT
                                   !.isLoading = TRUE, !.error = Null,
                                   !.inflight[c] = [action |-> action,
                                                    id |-> IF action \in {"updateNote", "deleteNote"}
                                                           THEN id ELSE Null]]
    /\ UNCHANGED StoreVarsOnly

\* notes.map(note => note.id === id ? data.note : note)
MapNotes(notes, id, note) == [i \in 1..Len(notes) |-> IF notes[i].id = id THEN note ELSE notes[i]]

\* the fetch of the call in slot c settles and the action runs to its end.
\* ok: response.ok; LISTS, CREATED: data.notes and data.note of the response
StoreSettle(c, LISTS, CREATED) ==
    /\ impl = "ts"
    /\ notesStore.inflight[c] # NoCall
    /\ \E ok \in BOOLEAN, list \in LISTS, note \in CREATED :
        LET call == notesStore.inflight[c]
            settled == [notesStore EXCEPT !.isLoading = FALSE, !.inflight[c] = NoCall]
            current == notesStore.currentNote
        IN
        notesStore' =
            IF ~ok THEN [settled EXCEPT !.error = "Failed"]
            ELSE IF call.action = "fetchNotes" THEN [settled EXCEPT !.notes = list]
            ELSE IF call.action = "createNote" THEN
                [settled EXCEPT !.notes = <<note>> \o notesStore.notes, !.currentNote = note.id]
            ELSE IF call.action = "updateNote" THEN
                [settled EXCEPT !.notes = MapNotes(notesStore.notes, call.id,
                                                   StoreNote(call.id, "T2"))]
            ELSE
                [settled EXCEPT
                    !.notes = SelectSeq(notesStore.notes, LAMBDA n : n.id # call.id),
                    !.currentNote = IF current = call.id THEN Null ELSE current]
    /\ UNCHANGED StoreVarsOnly

\* setCurrentNote(note), for a note of the list or null
StoreSetCurrentNote ==
    /\ impl = "ts"
    /\ \E id \in {notesStore.notes[i].id : i \in 1..Len(notesStore.notes)} \cup {Null} :
        StoreSet("currentNote", id)
    /\ UNCHANGED StoreVarsOnly

StoreClearError ==
    /\ impl = "ts"
    /\ StoreSet("error", Null)
    /\ UNCHANGED StoreVarsOnly

(***************************************************************************)
(* Initial state: empty namespaces, no route registered, nothing handled.  *)
(***************************************************************************)
InitState(IMPLS, PAIRS) ==
    /\ impl \in IMPLS
    /\ clock = 0
    /\ entropy = 0
    /\ created = 0
    /\ USERS = EmptyKV
    /\ NOTES = EmptyKV
    /\ issued = EmptyKV
    /\ last = NoRequest
    /\ routes = <<>>
    /\ routed = NotRouted
    /\ matched \in PAIRS
    /\ pending = NonePending
    /\ page = NoPage
    /\ notesStore = EmptyStore
    /\ memoryStorage = NoMemoryStorage

InitWith(IMPLS) == InitState(IMPLS, {NotMatched})

Workers == {"ts", "js", "js0"}

(***************************************************************************)
(* The auth endpoints under every kind of request body.                    *)
(***************************************************************************)
\* the fields of a login/register body: missing, empty, or a text
AuthUsernames == {Undefined, ""} \cup Usernames
AuthPasswords == {Undefined, "", "12345", "123456"}

InitAuth == InitWith(Workers)

NextAuth ==
    \/ TsRegister(AuthUsernames, AuthPasswords, {0, 1, 2})
    \/ TsLogin(AuthUsernames, AuthPasswords, {0, 1})
    \/ JsHandleAuth({"login", "register"}, AuthUsernames, AuthPasswords, {0, 1, 2, 3})
    \/ Tick

SpecAuth == InitAuth /\ [][NextAuth]_vars

\* the key of the user record of a username: auth.ts keys USERS by the
\* username itself, the single-file workers by user:<username>
UserKey(username) == IF impl = "ts" THEN username ELSE "user:" \o Tpl(username)

Registered(username) == Has(USERS, UserKey(username))

\* a step that handles a request of one of the operations ops
Handles(ops) ==
    /\ last'.op \in ops
    /\ clock' = clock
    /\ routes' = routes /\ routed' = routed /\ matched' = matched

RegisterStep == Handles({"register"})
LoginStep == Handles({"login"})

\* a body field that is a non-empty text
Given(v) == ~Falsy(v)

(***************************************************************************)
(* C4.  Registering a username twice.                                      *)
(***************************************************************************)
\* C4: a register request with a username and a password of at least the
\* minimum length, whose storage calls succeed, is answered 201 and stores the
\* user record when the username has no record, and is answered 409 and leaves
\* the USERS namespace (so the stored record and its password hash) unchanged
\* when the username has one.
C4_RegisterTwice ==
    [][(/\ RegisterStep
        /\ ~last'.failed
        /\ Given(last'.req.username)
        /\ Given(last'.req.password)
        /\ Len(last'.req.password) >= MinPasswordLength)
       => IF Registered(last'.req.username)
          THEN last'.status = 409 /\ USERS' = USERS
          ELSE /\ last'.status = 201
               /\ UserKey(last'.req.username) \in DOMAIN USERS'
               /\ USERS'[UserKey(last'.req.username)].passwordHash.of = last'.req.password
      ]_vars

(***************************************************************************)
(* C5.  Login outcomes.                                                    *)
(***************************************************************************)
\* the login request carries the password the stored record was registered with
RightPassword(username, password) ==
    /\ Registered(username)
    /\ password # Undefined
    /\ BcryptCompare(password, USERS[UserKey(username)].passwordHash)

\* C5: a login request whose storage calls succeed is answered 200 with a token
\* when the username is registered and the password is the registered one; in
\* every other case (no such user, or another password) the answer is 401 with
\* the one body {error: 'Invalid credentials'}, whichever of the two it is, or
\* the 400 of a body that lacks a field.
C5_LoginOutcome ==
    [][(LoginStep /\ ~last'.failed)
       => IF Given(last'.req.username)
             /\ RightPassword(last'.req.username, last'.req.password)
          THEN last'.status = 200 /\ last'.body.token \in DOMAIN issued'
          ELSE \/ /\ last'.status = 401
                  /\ last'.body = ErrorBody("Invalid credentials")
               \/ /\ last'.status = 400
                  /\ Falsy(last'.req.username) \/ Falsy(last'.req.password)
      ]_vars

(***************************************************************************)
(* C6.  Register validation.                                               *)
(***************************************************************************)
\* the body of a register request that validation has to reject
InvalidRegistration(req) ==
    \/ Falsy(req.username)
    \/ Falsy(req.password)
    \/ Len(req.password) < MinPasswordLength

\* C6: a register request with a missing or empty username, a missing or empty
\* password, or a password of fewer than 6 characters is answered 400, writes
\* nothing to USERS and issues no token.
C6_RegisterValidation ==
    [][(RegisterStep /\ InvalidRegistration(last'.req))
       => /\ last'.status = 400
          /\ USERS' = USERS
          /\ issued' = issued
      ]_vars

(***************************************************************************)
(* The notes endpoints behind register and login, with every kind of       *)
(* Authorization header and with failing storage calls.                    *)
(***************************************************************************)
\* the password of the accounts of the notes scenarios
Password == "123456"

\* Authorization headers carrying a token that register or login returned
IssuedHeaders == {"Bearer " \o token : token \in DOMAIN issued}

\* Authorization headers carrying no such token: no header, another scheme,
\* a token that is no base64 text, a base64 text nobody was given
OtherHeaders == {Undefined, "Token abc", "Bearer %%%", "Bearer " \o Btoa("mallory:0:0")}

Headers == IssuedHeaders \cup OtherHeaders

\* the ids of the notes in the NOTES namespace: notes.ts stores one note per
\* key, the single-file workers one list of notes per user
NoteIds ==
    IF impl = "ts" THEN {NOTES[k].id : k \in DOMAIN NOTES}
    ELSE UNION {{NOTES[k][i].id : i \in 1..Len(NOTES[k])} : k \in DOMAIN NOTES}

\* request paths /api/notes/:id, for the ids of stored notes and for an id
\* that no note has
NotePaths == {"/api/notes/" \o id : id \in NoteIds \cup {"nope"}}

Methods == {"GET", "POST", "PUT", "DELETE"}

\* one account; every kind of Authorization header on every notes endpoint
Init == InitWith(Workers)

Next ==
    \/ TsRegister({"alice"}, {Password}, {0})
    \/ TsLogin({"alice"}, {Password}, {0})
    \/ JsHandleAuth({"register", "login"}, {"alice"}, {Password}, {0})
    \/ TsGetNotes(Headers, {0})
    \/ TsCreateNote(Headers, {"T1"}, {"C1"}, {0})
    \/ TsUpdateNote(Headers, NotePaths, {"T2"}, {Undefined}, {0})
    \/ TsDeleteNote(Headers, NotePaths, {0})
    \/ JsHandleNotes(Methods, Headers, {"/api/notes"} \cup NotePaths, {"T1"}, {Undefined},
                     {0})

Spec == Init /\ [][Next]_vars

NotesOps == {"getNotes", "createNote", "updateNote", "deleteNote"}
NotesStep == Handles(NotesOps)

(***************************************************************************)
(* C2.  Requests without an issued token.                                  *)
(***************************************************************************)
\* the header is absent, is not 'Bearer <token>', or its token was never
\* returned by a register or a login
Unissued(header) ==
    \/ header = Undefined
    \/ ~StartsWith(header, "Bearer ")
    \/ Slice(header, 7) \notin DOMAIN issued

\* C2: on every notes endpoint a request whose Authorization header is absent,
\* is not of the form 'Bearer <token>', or carries a token that no register or
\* login returned is answered 401, in every worker.
C2_UnissuedIs401 ==
    [][(NotesStep /\ Unissued(last'.req.auth)) => last'.status = 401]_vars

(***************************************************************************)
(* C3.  Requests with an issued token.                                     *)
(***************************************************************************)
\* the token has not expired: only index.js gives its tokens an expiry
Unexpired(token) == impl = "js" => clock <= issued[token].at + TokenTtl

\* the header is 'Bearer <token>' for a token that register or login returned
\* and that has not expired
IssuedAndValid(header) ==
    /\ header # Undefined
    /\ StartsWith(header, "Bearer ")
    /\ Slice(header, 7) \in DOMAIN issued
    /\ Unexpired(Slice(header, 7))

\* C3: a notes request that presents, before its expiry, a token returned by a
\* successful register or login is authenticated as the user the token was
\* issued to: it is not answered 401 and it is served as that user.
C3_IssuedTokenAuthenticates ==
    [][(NotesStep /\ ~last'.failed /\ IssuedAndValid(last'.req.auth))
       => /\ last'.status # 401
          /\ last'.user = issued[Slice(last'.req.auth, 7)].principal
      ]_vars

(***************************************************************************)
(* The auth and notes endpoints of one account with failing storage calls. *)
(***************************************************************************)
NextFaults ==
    \/ TsRegister({"alice"}, {Password}, {0, 1, 2})
    \/ TsLogin({"alice"}, {Password}, {0, 1})
    \/ JsHandleAuth({"register", "login"}, {"alice"}, {Password}, {0, 1, 2, 3})
    \/ TsGetNotes(IssuedHeaders, {0, 1, 2})
    \/ TsCreateNote(IssuedHeaders, {"T1"}, {"C1"}, {0, 1})
    \/ TsUpdateNote(IssuedHeaders, NotePaths, {"T2"}, {Undefined}, {0, 1, 2})
    \/ TsDeleteNote(IssuedHeaders, NotePaths, {0, 1, 2})
    \/ JsHandleNotes(Methods, IssuedHeaders, {"/api/notes"} \cup NotePaths, {"T1"},
                     {Undefined}, {0, 1, 2, 3})

InitFaults == InitWith({"ts", "js"})

SpecFaults == InitFaults /\ [][NextFaults]_vars

(***************************************************************************)
(* C7.  Storage failures.                                                  *)
(***************************************************************************)
\* C7: a request during which a storage call failed is answered with a 500
\* response: not with a 400, 401, 404 or 409, and not with an exception that
\* leaves the worker's fetch.
C7_StorageFailureIs500 ==
    last.failed => (last.status = 500 /\ ~last.thrown)

(***************************************************************************)
(* Two accounts and their notes, as time passes.                           *)
(***************************************************************************)
InitIso == InitWith({"ts", "js"})

\* request paths /api/notes/:id for the ids of the stored notes
StoredNotePaths == {"/api/notes/" \o id : id \in NoteIds}

NextIso ==
    \/ TsRegister(Usernames, {Password}, {0})
    \/ JsHandleAuth({"register"}, Usernames, {Password}, {0})
    \/ Tick
    \/ TsGetNotes(IssuedHeaders, {0})
    \/ TsCreateNote(IssuedHeaders, {"T1"}, {"C1"}, {0})
    \/ TsUpdateNote(IssuedHeaders, StoredNotePaths, {Undefined, "T2"}, {Undefined}, {0})
    \/ TsDeleteNote(IssuedHeaders, StoredNotePaths, {0})
    \/ JsHandleNotes(Methods, IssuedHeaders, {"/api/notes"} \cup StoredNotePaths, {Undefined, "T2"},
                     {Undefined}, {0})

SpecIso == InitIso /\ [][NextIso]_vars

(***************************************************************************)
(* C1.  Note isolation.                                                    *)
(***************************************************************************)
\* the users that tokens were issued to
Principals == {issued[token].principal : token \in DOMAIN issued}

\* what the namespace store holds for user u: notes.ts writes the owner into
\* each note, the single-file worker keeps one list per username
OwnedStore(store, u) ==
    IF impl = "ts"
    THEN {store[k] : k \in {j \in DOMAIN store : store[j].userId = u}}
    ELSE IF Has(store, "notes:" \o u) THEN store["notes:" \o u] ELSE <<>>

OwnedIds(store, u) ==
    IF impl = "ts"
    THEN {n.id : n \in OwnedStore(store, u)}
    ELSE {OwnedStore(store, u)[i].id : i \in 1..Len(OwnedStore(store, u))}

\* the notes of a 200 answer to GET /api/notes are those stored for u
ReturnsNotesOf(response, store, u) ==
    IF impl = "ts"
    THEN /\ {response.body.notes[i] : i \in 1..Len(response.body.notes)} = OwnedStore(store, u)
         /\ Len(response.body.notes) = Cardinality(OwnedStore(store, u))
    ELSE response.body = OwnedStore(store, u)

\* the request was served as the user its token was issued to
ServedAsTokenOwner(response) ==
    /\ response.req.auth # Undefined
    /\ StartsWith(response.req.auth, "Bearer ")
    /\ Slice(response.req.auth, 7) \in DOMAIN issued
    /\ response.user = issued[Slice(response.req.auth, 7)].principal

\* the request is PUT or DELETE /api/notes/<id>
NamesNote(response) ==
    /\ response.op \in {"updateNote", "deleteNote"}
    /\ StartsWith(response.req.path, "/api/notes/")
    /\ Len(response.req.path) > Len("/api/notes/")

NamedNoteId(response) == Slice(response.req.path, Len("/api/notes/"))

\* users other than u who own a note with this id
OtherOwners(id, u) == {b \in Principals \ {u} : id \in OwnedIds(NOTES, b)}

\* the body of a PUT carries neither a title nor a content
EmptyUpdate(response) ==
    /\ response.op = "updateNote"
    /\ Falsy(response.req.title)
    /\ Falsy(response.req.content)

\* C1 (as stated): a request authenticated with a token issued to A gets from
\* GET /api/notes the notes of A only, and PUT or DELETE /api/notes/:id with
\* the id of a note of another user B is answered 404 and leaves what is stored
\* for B unchanged.
C1_IsolationAsStated ==
    [][(NotesStep /\ ServedAsTokenOwner(last'))
       => /\ (last'.op = "getNotes" /\ last'.status = 200)
                => ReturnsNotesOf(last', NOTES, last'.user)
          /\ (NamesNote(last') /\ OtherOwners(NamedNoteId(last'), last'.user) # {})
                => /\ last'.status = 404
                   /\ \A b \in Principals \ {last'.user} :
                        OwnedStore(NOTES', b) = OwnedStore(NOTES, b)
      ]_vars

\* C1 (amended): a request authenticated with a token issued to A gets from
\* GET /api/notes exactly the notes stored for A, and leaves what is stored for
\* every other user unchanged; PUT or DELETE /api/notes/:id with the id of a
\* note of another user, an id under which A owns no note, is answered 404,
\* except that notes.ts answers 400 to a PUT whose body has neither title nor
\* content before it looks the note up.
C1_Isolation ==
    [][(NotesStep /\ ServedAsTokenOwner(last'))
       => /\ (last'.op = "getNotes" /\ last'.status = 200)
                => ReturnsNotesOf(last', NOTES, last'.user)
          /\ \A b \in Principals \ {last'.user} :
                OwnedStore(NOTES', b) = OwnedStore(NOTES, b)
          /\ (/\ NamesNote(last')
              /\ OtherOwners(NamedNoteId(last'), last'.user) # {}
              /\ NamedNoteId(last') \notin OwnedIds(NOTES, last'.user))
                => IF impl = "ts" /\ EmptyUpdate(last')
                   THEN last'.status = 400
                   ELSE last'.status = 404
      ]_vars

\* A's PUT or DELETE on the id of a note that another user still owns was
\* answered 404
C1_Witness ==
    /\ NamesNote(last)
    /\ ServedAsTokenOwner(last)
    /\ last.status = 404
    /\ OtherOwners(NamedNoteId(last), last.user) # {}

(***************************************************************************)
(* One account and its notes, as time passes: notes are created, updated   *)
(* and deleted with and without the fields of the body.                    *)
(***************************************************************************)
\* request paths /api/notes/:id for every id a note was ever created with:
\* notes.ts draws ids from randomUUID, the single-file worker takes Date.now()
EverNotePaths ==
    IF impl = "ts"
    THEN {"/api/notes/" \o Uuid(n) : n \in 1..entropy}
    ELSE {"/api/notes/" \o ToString(t) : t \in 0..clock}

InitNotes == InitWith({"ts", "js"})

NextNotes ==
    \/ TsRegister({"alice"}, {Password}, {0})
    \/ JsHandleAuth({"register"}, {"alice"}, {Password}, {0})
    \/ Tick
    \/ TsGetNotes(IssuedHeaders, {0})
    \/ TsCreateNote(IssuedHeaders, {Undefined, "T1"}, {Undefined, "C1"}, {0})
    \/ TsUpdateNote(IssuedHeaders, EverNotePaths, {Undefined, "T2"}, {Undefined, "C2"}, {0})
    \/ TsDeleteNote(IssuedHeaders, EverNotePaths, {0})
    \/ JsHandleNotes({"GET"}, IssuedHeaders, {"/api/notes"}, {Undefined}, {Undefined}, {0})
    \/ JsHandleNotes({"POST"}, IssuedHeaders, {"/api/notes"}, {Undefined, "T1"},
                     {Undefined, "C1"}, {0})
    \/ JsHandleNotes({"PUT"}, IssuedHeaders, EverNotePaths, {Undefined, "T2"},
                     {Undefined, "C2"}, {0})
    \/ JsHandleNotes({"DELETE"}, IssuedHeaders, EverNotePaths, {Undefined}, {Undefined}, {0})

SpecNotes == InitNotes /\ [][NextNotes]_vars

StoredNote(store, u, id) ==
    IF impl = "ts" THEN store[TsNoteKey(u, id)]
    ELSE store["notes:" \o u][FindIndex(store["notes:" \o u], id)]

\* a PUT /api/notes/<id> of the token's owner on a note that the owner has,
\* during which no storage call failed
UpdatesOwnNote ==
    /\ NotesStep
    /\ last'.op = "updateNote"
    /\ ~last'.failed
    /\ ServedAsTokenOwner(last')
    /\ NamesNote(last')
    /\ NamedNoteId(last') \in OwnedIds(NOTES, last'.user)

\* C15: a PUT on an existing own note whose body supplies a title or a
\* content is answered 200 and stores under the same id a note that has the
\* supplied fields, the prior value of every other field (id, userId,
\* createdAt, an unsupplied title or content), and an updatedAt not before the
\* prior one; a PUT whose body supplies neither is answered 400 and leaves the
\* NOTES namespace unchanged.
C15_Update ==
    [][UpdatesOwnNote
       => LET u == last'.user
              id == NamedNoteId(last')
              title == last'.req.title
              content == last'.req.content
          IN
          IF title = Undefined /\ content = Undefined
          THEN last'.status = 400 /\ NOTES' = NOTES
          ELSE /\ last'.status = 200
               /\ id \in OwnedIds(NOTES', u)
               /\ LET old == StoredNote(NOTES, u, id)
                      new == StoredNote(NOTES', u, id)
                  IN
                  /\ new = [old EXCEPT
                        !.title = IF title = Undefined THEN old.title ELSE title,
                        !.content = IF content = Undefined THEN old.content ELSE content,
                        !.updatedAt = new.updatedAt]
                  /\ new.updatedAt >= old.updatedAt
                  /\ last'.body = IF impl = "ts" THEN [note |-> new] ELSE new
      ]_vars

(***************************************************************************)
(* C16.  Deleting a note twice.                                            *)
(***************************************************************************)
\* a DELETE /api/notes/<id> of the token's owner during which no storage call
\* failed
DeletesNote ==
    /\ NotesStep
    /\ last'.op = "deleteNote"
    /\ ~last'.failed
    /\ ServedAsTokenOwner(last')
    /\ NamesNote(last')

\* C16: a DELETE /api/notes/<id> by the owner of a note with this id is
\* answered 200 and leaves the owner without a note of this id; a DELETE with
\* an id under which the caller has no note, so the same DELETE once more, is
\* answered 404 and leaves the NOTES namespace unchanged.
C16_DeleteTwice ==
    [][DeletesNote
       => /\ IF NamedNoteId(last') \in OwnedIds(NOTES, last'.user)
             THEN /\ last'.status = 200
                  /\ NamedNoteId(last') \notin OwnedIds(NOTES', last'.user)
             ELSE /\ last'.status = 404
                  /\ NOTES' = NOTES
          /\ (last.op = "deleteNote" /\ last.status = 200 /\ last'.req = last.req)
                => (last'.status = 404 /\ NOTES' = NOTES)
      ]_vars

\* the one note that was created has been deleted, and a DELETE with its id
\* was answered 404
C16_Witness ==
    /\ created = 1
    /\ NoteIds = {}
    /\ last.op = "deleteNote"
    /\ last.status = 404
    /\ ServedAsTokenOwner(last)
    /\ last.req.path \in EverNotePaths
    /\ impl = "ts" => NamedNoteId(last) = Uuid(entropy)

(***************************************************************************)
(* C17.  Create validation.                                                *)
(***************************************************************************)
\* how many notes the namespace store holds for user u
OwnedCount(store, u) ==
    IF impl = "ts" THEN Cardinality(OwnedStore(store, u)) ELSE Len(OwnedStore(store, u))

\* the note in the body of the response to a create
CreatedNote(response) == IF impl = "ts" THEN response.body.note ELSE response.body

\* the namespace holds the note n for user u
Holds(store, u, n) ==
    IF impl = "ts" THEN n \in OwnedStore(store, u)
    ELSE \E i \in 1..Len(OwnedStore(store, u)) : OwnedStore(store, u)[i] = n

\* C17: a POST /api/notes of a token's owner whose body lacks the title or
\* lacks the content is answered 400 and leaves the NOTES namespace unchanged;
\* one whose body has both is answered 201 and leaves the caller with exactly
\* one note more, the one of the response, which has the title and the
\* content of the body.
C17_Create ==
    [][(/\ NotesStep
        /\ last'.op = "createNote"
        /\ ~last'.failed
        /\ ServedAsTokenOwner(last'))
       => IF last'.req.title = Undefined \/ last'.req.content = Undefined
          THEN last'.status = 400 /\ NOTES' = NOTES
          ELSE /\ last'.status = 201
               /\ OwnedCount(NOTES', last'.user) = OwnedCount(NOTES, last'.user) + 1
               /\ Holds(NOTES', last'.user, CreatedNote(last'))
               /\ CreatedNote(last').title = last'.req.title
               /\ CreatedNote(last').content = last'.req.content
               /\ impl = "ts" => CreatedNote(last').userId = last'.user
      ]_vars

(***************************************************************************)
(* C18.  Order of the list.                                                *)
(***************************************************************************)
\* the notes of a 200 answer to GET /api/notes
ListedNotes(response) == IF impl = "ts" THEN response.body.notes ELSE response.body

\* C18: a GET /api/notes of a token's owner answered 200 returns the notes
\* stored for the owner, each once, ordered by updatedAt with the most
\* recently updated first: no note is followed by one with a greater
\* updatedAt.
C18_NewestFirst ==
    [][(/\ NotesStep
        /\ last'.op = "getNotes"
        /\ last'.status = 200
        /\ ServedAsTokenOwner(last'))
       => /\ ReturnsNotesOf(last', NOTES, last'.user)
          /\ \A i \in 1..(Len(ListedNotes(last')) - 1) :
                ListedNotes(last')[i].updatedAt >= ListedNotes(last')[i + 1].updatedAt
      ]_vars

(***************************************************************************)
(* One account whose tokens expire: every kind of Authorization header,    *)
(* failing storage calls, and time passing beyond the expiry.              *)
(***************************************************************************)
InitSession == InitWith({"ts", "js"})

\* the issued tokens; no header, another scheme, a token that is no base64 text
SessionHeaders == IssuedHeaders \cup {Undefined, "Token abc", "Bearer %%%"}

NextSession ==
    \/ TsRegister({"alice"}, {Password}, {0})
    \/ JsHandleAuth({"register", "login"}, {"alice"}, {Password}, {0})
    \/ TickUntil(MaxLifetime)
    \/ TsGetNotes(SessionHeaders, {0})
    \/ TsCreateNote(SessionHeaders, {"T1"}, {"C1"}, {0})
    \/ TsUpdateNote(SessionHeaders, StoredNotePaths, {"T2"}, {Undefined}, {0})
    \/ TsDeleteNote(SessionHeaders, StoredNotePaths, {0})
    \/ JsHandleNotes({"GET"}, SessionHeaders, {"/api/notes"}, {Undefined}, {Undefined},
                     {0, 1, 2, 4})

SpecSession == InitSession /\ [][NextSession]_vars

(***************************************************************************)
(* C19.  Token expiry.                                                     *)
(***************************************************************************)
\* the token of the request, and the time after which it is expired
TokenOf(response) == Slice(response.req.auth, 7)
ExpiresAt(token) == issued[token].at + TokenTtl

\* a notes request of the single-file worker that carries an issued token and
\* during which no storage call failed
LooksUpIssuedToken ==
    /\ NotesStep
    /\ impl = "js"
    /\ ~last'.failed
    /\ last'.req.auth # Undefined
    /\ StartsWith(last'.req.auth, "Bearer ")
    /\ TokenOf(last') \in DOMAIN issued

\* C19: in the single-file worker a lookup of an issued token gives the
\* username the token was issued to while the time is not after the token's
\* expiresAt (its issuance plus 24 hours) and leaves the token entry; once
\* the time is after expiresAt the lookup gives null (the request is answered
\* 401) and the USERS namespace has no entry of the token any more, at this
\* and at every later lookup.
C19_Expiry ==
    [][LooksUpIssuedToken
       => IF clock <= ExpiresAt(TokenOf(last'))
          THEN /\ last'.user = issued[TokenOf(last')].username
               /\ last'.status # 401
               /\ Has(USERS', "token:" \o TokenOf(last'))
          ELSE /\ last'.user = Null
               /\ last'.status = 401
               /\ ~Has(USERS', "token:" \o TokenOf(last'))
      ]_vars

\* an issued token was presented after its expiry: 401, and its entry is gone
C19_Witness ==
    /\ impl = "js"
    /\ last.op \in NotesOps
    /\ last.status = 401
    /\ last.req.auth \in IssuedHeaders
    /\ clock > ExpiresAt(TokenOf(last))
    /\ ~Has(USERS, "token:" \o TokenOf(last))

(***************************************************************************)
(* C20.  authenticateRequest never throws.                                 *)
(***************************************************************************)
\* C20: whatever the Authorization header and the token, and whether or not
\* a storage call of the lookup fails or the stored entry is unreadable, a
\* notes request in which authenticateRequest identified nobody does not end
\* with an exception: it is answered 401.
C20_NeverThrows ==
    [][(NotesStep /\ last'.user = Null)
       => (~last'.thrown /\ last'.status = 401)
      ]_vars

\* the get of the token entry failed during a request with an issued token,
\* and the request was answered 401
C20_Witness ==
    /\ impl = "js"
    /\ last.op \in NotesOps
    /\ last.failed
    /\ last.user = Null
    /\ last.status = 401
    /\ last.req.auth \in IssuedHeaders

(***************************************************************************)
(* The router: routes are registered, requests are handled.                *)
(***************************************************************************)
\* a literal pattern and a pattern with a parameter that both match one path
RoutePatterns == {"/api/notes/abc", "/api/notes/:id"}
\* every registration passes a closure of its own
RouteHandlers == {"h" \o ToString(Len(routes) + 1)}
RequestPaths == {"/api/notes/abc", "/api/notes/xyz", "/api/notes"}
\* the messages of the exceptions a handler raises
HandlerErrors == {"KV GET failed", "Unexpected end of JSON input"}

InitRouter == InitWith({"ts"})

NextRouter ==
    \/ RouterGet(RoutePatterns, RouteHandlers)
    \/ RouterPost(RoutePatterns, RouteHandlers)
    \/ RouterPut(RoutePatterns, RouteHandlers)
    \/ RouterDelete(RoutePatterns, RouteHandlers)
    \/ Handle(Methods \cup {"OPTIONS"}, RequestPaths, {"ok"} \cup HandlerErrors)

SpecRouter == InitRouter /\ [][NextRouter]_vars

(***************************************************************************)
(* C8.  Router dispatch.                                                   *)
(***************************************************************************)
\* the positions of the registered routes that the request matches
Matching(method, path) ==
    {i \in 1..Len(routes) : routes[i].method = method /\ matchPath(routes[i].path, path)}

\* C8: handling a request whose method is not OPTIONS invokes exactly one
\* handler, that of the earliest registered route of the method whose pattern
\* matches the path; when no registered route matches it invokes no handler
\* and answers 404.
C8_Dispatch ==
    [][(routed' # routed /\ routed'.method # "OPTIONS")
       => IF Matching(routed'.method, routed'.path) = {}
          THEN routed'.invoked = <<>> /\ routed'.status = 404
          ELSE \E i \in Matching(routed'.method, routed'.path) :
                  /\ \A j \in Matching(routed'.method, routed'.path) : i <= j
                  /\ routed'.invoked = <<routes[i].handler>>
      ]_vars

\* two registered routes with different handlers match the request, and the
\* handler of the first was the one invoked
C8_Witness ==
    /\ Len(routes) >= 2
    /\ Matching(routed.method, routed.path) = {1, 2}
    /\ routes[1].handler # routes[2].handler
    /\ routed.invoked = <<routes[1].handler>>

(***************************************************************************)
(* C11.  An exception of the handler.                                      *)
(***************************************************************************)
\* C11: when the handler that handle selected raises an exception, handle
\* does not end with that exception: it answers 500 with the header
\* Access-Control-Allow-Origin and with the body {error: 'Route handler
\* error'}, the same for every exception, which is not and does not carry the
\* exception's message.
C11_HandlerException ==
    routed.error # Null
        => /\ ~routed.thrown
           /\ routed.status = 500
           /\ "Access-Control-Allow-Origin" \in DOMAIN routed.headers
           /\ routed.headers["Access-Control-Allow-Origin"] = "*"
           /\ routed.body = ErrorBody("Route handler error")
           /\ routed.body.error # routed.error

\* a registered handler was invoked and raised 'KV GET failed'
C11_Witness ==
    /\ Len(routed.invoked) = 1
    /\ routed.error = "KV GET failed"
    /\ routed.status = 500

(***************************************************************************)
(* Every kind of request given to fetch, in both workers.                  *)
(***************************************************************************)
FetchMethods == Methods \cup {"OPTIONS"}

\* the static pages, the API routes, and paths that are no route
FetchPaths ==
    {"/", "/favicon.ico", "/api/other", "/api/auth/register", "/api/auth/logout", "/api/notes/",
     "/api/notes"}
        \cup StoredNotePaths

FetchHeaders == {Undefined} \cup IssuedHeaders

InitFetch == InitWith({"ts", "js"})

NextFetch ==
    \/ TsFetch(FetchMethods, FetchPaths, FetchHeaders, {"alice"}, {Password},
               {"T1"}, {"C1"}, {0, 1})
    \/ JsFetch(FetchMethods, FetchPaths, FetchHeaders, {"alice"}, {Password},
               {"T1"}, {"C1"}, {0, 1})

SpecFetch == InitFetch /\ [][NextFetch]_vars

FetchOps == NotesOps \cup {"login", "register", "preflight", "notFound", "notAllowed", "serveIndex"}
FetchStep == Handles(FetchOps)

(***************************************************************************)
(* C12.  Pre-flight.                                                       *)
(***************************************************************************)
\* C12: a request with method OPTIONS, on any path and with any or no
\* Authorization header, is answered by the pre-flight response: status 200,
\* no body and exactly the three CORS headers; no route handler runs (the
\* response is that of no controller and of no 404), nobody is authenticated,
\* no storage call of the request can fail, and the USERS and NOTES
\* namespaces and the issued tokens are as before.
C12_Preflight ==
    [][(FetchStep /\ last'.req.method = "OPTIONS")
       => /\ last'.op = "preflight"
          /\ last'.status = 200
          /\ last'.body = Null
          /\ last'.headers = CORS_HEADERS
          /\ last'.user = Null
          /\ ~last'.failed /\ ~last'.thrown
          /\ USERS' = USERS /\ NOTES' = NOTES /\ issued' = issued
      ]_vars

\* OPTIONS on the path of a stored note, with the token of its owner
C12_Witness ==
    /\ last.op = "preflight"
    /\ last.req.method = "OPTIONS"
    /\ last.req.path \in StoredNotePaths
    /\ last.req.auth \in IssuedHeaders

(***************************************************************************)
(* C13.  Access-Control-Allow-Origin on every response.                    *)
(***************************************************************************)
\* C13: every response of the TypeScript worker (of a controller with any
\* status, of the static page, of the pre-flight, and the router's 404)
\* carries the header Access-Control-Allow-Origin: *.
C13_AllowOrigin ==
    (impl = "ts" /\ last.op # "none" /\ ~last.thrown)
        => /\ "Access-Control-Allow-Origin" \in DOMAIN last.headers
           /\ last.headers["Access-Control-Allow-Origin"] = "*"

\* a 500 of a controller whose storage call failed
C13_Witness ==
    /\ impl = "ts"
    /\ last.status = 500
    /\ last.failed
    /\ last.headers = TsJsonHeaders

(***************************************************************************)
(* matchPath and getPathParams on patterns and paths.                      *)
(***************************************************************************)
\* the texts are written as their '/'-separated pieces; an empty piece stands
\* for a leading, trailing or doubled '/'
PatternPieces == {"", "a", ":a", ":b"}
PathPieces == {"", "a", "b"}

PiecesOver(pieces) == UNION {[1..n -> pieces] : n \in 1..MaxSegs}

Patterns == PiecesOver(PatternPieces) \cup {<<"", "api", "notes", ":id">>}
Paths ==
    PiecesOver(PathPieces)
        \cup {<<"", "api", "notes">>, <<"", "api", "notes", "abc">>,
              <<"", "api", "notes", "abc", "extra">>}

InitMatch ==
    InitState({"ts"}, {Unmatched(routePieces, requestPieces) :
                            routePieces \in Patterns, requestPieces \in Paths})

NextMatch == MatchPath

SpecMatch == InitMatch /\ [][NextMatch]_vars

\* the pieces that are left when the empty ones are discarded
Segments(pieces) == SelectSeq(pieces, LAMBDA x : x # "")

\* the segment is a ':'-segment
IsParam(segment) == Len(segment) >= 1 /\ SubSeq(segment, 1, 1) = ":"

(***************************************************************************)
(* C9.  matchPath.                                                         *)
(***************************************************************************)
\* C9: matchPath(pattern, path) is true exactly when the non-empty
\* '/'-separated segments of the two are equally many and at every position
\* the pattern's segment starts with ':' or equals the path's; so
\* '/api/notes/:id' matches '/api/notes/abc' and matches neither '/api/notes'
\* nor '/api/notes/abc/extra'.
C9_MatchPath ==
    /\ matched.called
        => matched.result =
            (/\ Len(Segments(matched.routePieces)) = Len(Segments(matched.requestPieces))
             /\ \A i \in 1..Len(Segments(matched.routePieces)) :
                    \/ IsParam(Segments(matched.routePieces)[i])
                    \/ Segments(matched.routePieces)[i] = Segments(matched.requestPieces)[i])
    /\ (matched.called /\ matched.routePath = "/api/notes/:id")
        => /\ matched.requestPath = "/api/notes/abc" => matched.result
           /\ matched.requestPath = "/api/notes" => ~matched.result
           /\ matched.requestPath = "/api/notes/abc/extra" => ~matched.result

\* the pattern with a ':'-segment was matched against '/api/notes/abc'
C9_Witness ==
    /\ matched.routePath = "/api/notes/:id"
    /\ matched.requestPath = "/api/notes/abc"
    /\ matched.result

(***************************************************************************)
(* C10.  getPathParams.                                                    *)
(***************************************************************************)
\* the positions of the ':'-segments of the pattern
ParamPositions == {i \in 1..Len(Segments(matched.routePieces)) :
                        IsParam(Segments(matched.routePieces)[i])}

\* the name of the ':'-segment at position i
ParamName(i) == Slice(Segments(matched.routePieces)[i], 1)

\* C10 (as stated): for a pair that matchPath accepts, the keys of the mapping
\* are exactly the names of the pattern's ':'-segments, and each name is mapped
\* to the path segment at the position of its ':'-segment.
C10_PathParamsAsStated ==
    (matched.called /\ matched.result)
        => /\ DOMAIN matched.params = {ParamName(i) : i \in ParamPositions}
           /\ \A i \in ParamPositions :
                matched.params[ParamName(i)] = Segments(matched.requestPieces)[i]

\* C10 (amended): for a pair that matchPath accepts, the keys of the mapping
\* are exactly the names of the pattern's ':'-segments, and each name is mapped
\* to the path segment at the position of the last ':'-segment of that name
\* (which is the only one unless the pattern repeats a name).
C10_PathParams ==
    (matched.called /\ matched.result)
        => /\ DOMAIN matched.params = {ParamName(i) : i \in ParamPositions}
           /\ \A i \in ParamPositions :
                (\A j \in ParamPositions : ParamName(j) = ParamName(i) => j <= i)
                    => matched.params[ParamName(i)] = Segments(matched.requestPieces)[i]

\* '/api/notes/:id' and '/api/notes/abc' gave {id: 'abc'}
C10_Witness ==
    /\ matched.result
    /\ matched.routePath = "/api/notes/:id"
    /\ matched.requestPath = "/api/notes/abc"
    /\ DOMAIN matched.params = {"id"}
    /\ matched.params["id"] = "abc"


(***************************************************************************)
(* SpecRace: two notes requests in flight at the same time in the          *)
(* TypeScript worker.  One user registers and creates a note; updates and  *)
(* deletes of the stored note overlap at the granularity of the get and    *)
(* the put or delete of the note's key.                                    *)
(***************************************************************************)
InitRace == InitWith({"ts"})

NextRace ==
    \/ TsRegister({"alice"}, {Password}, {0})
    \/ created = 0 /\ TsCreateNote(IssuedHeaders, {"T1"}, {"C1"}, {0})
    \/ TsGetNotes(IssuedHeaders, {0})
    \/ \E p \in Procs : TsUpdateNoteGet(p, IssuedHeaders, StoredNotePaths, {"T2"}, {Undefined})
    \/ \E p \in Procs : TsUpdateNoteGet(p, IssuedHeaders, StoredNotePaths, {Undefined}, {"C2"})
    \/ \E p \in Procs : TsUpdateNotePut(p)
    \/ \E p \in Procs : TsDeleteNoteGet(p, IssuedHeaders, StoredNotePaths)
    \/ \E p \in Procs : TsDeleteNoteDelete(p)
    \/ \E p \in Procs : Deliver(p)
    \/ Tick

SpecRace == InitRace /\ [][NextRace]_vars

\* slot p holds a returned response of the operation with the status
Done(p, op, status) ==
    /\ pending[p].phase = "done"
    /\ pending[p].op = op
    /\ pending[p].response.status = status

\* slot p holds a request of the operation that has read its key, whether or
\* not it has written it
HasRead(p, op) ==
    /\ pending[p].phase \in {"write", "done"}
    /\ pending[p].op = op
    /\ pending[p].key # Null

(***************************************************************************)
(* C21.  Last write wins.                                                  *)
(***************************************************************************)
\* both slots hold an update of the same note that has written, and the put
\* of p ran after the put of q
BothUpdated(p, q) ==
    /\ p # q
    /\ HasRead(p, "updateNote") /\ pending[p].phase = "done"
    /\ HasRead(q, "updateNote") /\ pending[q].phase = "done"
    /\ pending[p].key = pending[q].key
    /\ q \in pending[p].after

\* C21: an update of the TypeScript worker that has read the note returns 200
\* when it returns, and once two overlapping updates of the same note have
\* both returned, the note is stored and is the record that the update whose
\* put ran last wrote.
C21_LastWriteWins ==
    /\ \A p \in Procs :
        HasRead(p, "updateNote") /\ pending[p].phase = "done" =>
            /\ pending[p].response.status = 200
            /\ pending[p].response.body = [note |-> pending[p].value]
    /\ \A p, q \in Procs :
        BothUpdated(p, q) =>
            /\ Has(NOTES, pending[p].key)
            /\ NOTES[pending[p].key] = pending[p].value

\* two overlapping updates, both of which read the note before either wrote
\* it, have written different records
C21_Witness ==
    \E p, q \in Procs :
        /\ BothUpdated(p, q)
        /\ pending[p].value # pending[q].value
        /\ pending[p].value.title # pending[q].value.title
        /\ pending[p].value.content = "C1"
        /\ pending[q].value.content = "C2"


(***************************************************************************)
(* C25.  A deleted note stays deleted.                                     *)
(***************************************************************************)
\* C25: while the response 200 of a DELETE is held, the key of the note is
\* absent from NOTES (so that no GET lists the note), whatever update of the
\* note was in flight when the delete ran.
C25_StaysDeleted ==
    \A p \in Procs :
        HasRead(p, "deleteNote") /\ Done(p, "deleteNote", 200) => ~Has(NOTES, pending[p].key)

(***************************************************************************)
(* SpecAutoSave: the single-page client.  A timer that is armed fires.     *)
(***************************************************************************)
InitAutoSave == InitWith({"js"})

NextAutoSave ==
    \/ PageLoad
    \/ PageHandleAuth
    \/ PageLogout
    \/ PageSelectNote
    \/ PageCreateNote
    \/ PageInput({"T2"}, {"C2"})
    \/ PageSaveNote
    \/ PageTick

SpecAutoSave == InitAutoSave /\ [][NextAutoSave]_vars /\ WF_vars(PageSaveNote)

\* the input events that the page can have seen
Edits ==
    [id : {ToString(t) : t \in 0..MaxClock},
     title : {"Welcome to Mini Notes", "Untitled Note", "T2"},
     content : {"# Welcome to Mini Notes!", "", "C2"}]

(***************************************************************************)
(* C22.  Auto-save.                                                        *)
(***************************************************************************)
\* C22: every input event on the selected note is eventually followed by a
\* firing of the timer that sends PUT /api/notes/<id of the edited note> with
\* the title and the content of the edit, or by a later input event.
C22_AutoSave ==
    \A e \in Edits :
        (page.loaded /\ page.edit = e)
            ~> (page.sent = e \/ (page.edit # NoNote /\ page.edit # e))


(***************************************************************************)
(* SpecRegister: two registrations in flight at the same time in the       *)
(* TypeScript worker, overlapping at the granularity of the get and the    *)
(* put of the user's key, and logins with the passwords they gave.         *)
(***************************************************************************)
InitRegister == InitWith({"ts"})

RegisterPasswords == {Password, "654321", "12345"}

NextRegister ==
    \/ \E p \in Procs : TsRegisterGet(p, {Undefined, "alice"}, RegisterPasswords)
    \/ \E p \in Procs : TsRegisterPut(p)
    \/ TsLogin({"alice"}, RegisterPasswords, {0})
    \/ \E p \in Procs : Deliver(p)
    \/ Tick

SpecRegister == InitRegister /\ [][NextRegister]_vars

(***************************************************************************)
(* C23.  Concurrent registration.                                          *)
(***************************************************************************)
\* C23: two overlapping register requests for the same username never both
\* return 201, and while one that returned 201 is the only one, the stored
\* password hash is the hash of its password.
C23_OneRegistration ==
    /\ \A p, q \in Procs :
        p # q /\ Done(p, "register", 201) /\ Done(q, "register", 201) =>
            pending[p].req.username # pending[q].req.username
    /\ \A p \in Procs :
        Done(p, "register", 201) =>
            /\ Has(USERS, pending[p].req.username)
            /\ BcryptCompare(pending[p].req.password,
                             USERS[pending[p].req.username].passwordHash)


(***************************************************************************)
(* SpecCreate: two POST /api/notes in flight at the same time in the       *)
(* single-file worker, overlapping at the granularity of the get and the   *)
(* put of the user's notes key, and GET /api/notes.                        *)
(***************************************************************************)
InitCreate == InitWith({"js"})

NextCreate ==
    \/ JsHandleAuth({"register"}, {"alice"}, {Password}, {0})
    \/ \E p \in Procs : JsCreateNoteGet(p, {Undefined} \cup IssuedHeaders, {"T1", "T2"}, {"C1"})
    \/ \E p \in Procs : JsCreateNotePut(p)
    \/ JsHandleNotes({"GET"}, IssuedHeaders, {"/api/notes"}, {Undefined}, {Undefined}, {0})
    \/ \E p \in Procs : Deliver(p)
    \/ Tick

SpecCreate == InitCreate /\ [][NextCreate]_vars

(***************************************************************************)
(* C24.  No lost creates.                                                  *)
(***************************************************************************)
\* the note is in the list
Lists(notes, note) == \E i \in 1..Len(notes) : notes[i] = note

\* C24: when two overlapping POST /api/notes of one user have both returned
\* success, a GET /api/notes of the user returns both created notes.
C24_NoLostCreate ==
    [][\A p, q \in Procs :
          /\ p # q
          /\ Done(p, "createNote", 200) /\ Done(q, "createNote", 200)
          /\ pending[p].user = pending[q].user
          /\ Handles({"getNotes"}) /\ pending' = pending
          /\ last'.status = 200 /\ last'.user = pending[p].user
          => /\ Lists(last'.body, pending[p].response.body)
             /\ Lists(last'.body, pending[q].response.body)]_vars


(***************************************************************************)
(* SpecPath: PUT and DELETE of the TypeScript worker on the paths that its *)
(* router gives to updateNote and deleteNote: the path of a stored note as *)
(* it is, with a trailing slash and with a doubled slash.                  *)
(***************************************************************************)
InitPath == InitWith({"ts"})

\* ways of writing the path of a note, and two paths beside them
PathsOfNotes ==
    UNION {{"/api/notes/" \o id, "/api/notes/" \o id \o "/", "/api/notes//" \o id,
            "/api/notes/" \o id \o "/x"} : id \in NoteIds} \cup {"/api/notes/"}

\* the paths that the router gives to the handler for the method
RoutedTo(handler, method) == {path \in PathsOfNotes : TsHandlerOf(method, path) = handler}

NextPath ==
    \/ TsRegister({"alice"}, {Password}, {0})
    \/ created = 0 /\ TsCreateNote(IssuedHeaders, {"T1"}, {"C1"}, {0})
    \/ TsUpdateNote({Undefined} \cup IssuedHeaders, RoutedTo("updateNote", "PUT"),
                    {"T2"}, {Undefined, "C2"}, {0})
    \/ TsDeleteNote({Undefined} \cup IssuedHeaders, RoutedTo("deleteNote", "DELETE"), {0})
    \/ TsGetNotes(IssuedHeaders, {0})
    \/ Tick

SpecPath == InitPath /\ [][NextPath]_vars

(***************************************************************************)
(* C26.  The note id of the controller and the ':id' of the router.        *)
(***************************************************************************)
\* C26: on every path that the router matches to PUT or DELETE
\* '/api/notes/:id', the note id from which updateNote and deleteNote build the
\* storage key is the value that getPathParams extracts for ':id'.
C26_SameNoteId ==
    [][(Handles({"updateNote", "deleteNote"}) /\ impl = "ts")
        => LastSegment(last'.req.path)
               = getPathParams("/api/notes/:id", last'.req.path)["id"]]_vars


(***************************************************************************)
(* SpecReject: the requests of the TypeScript worker, those it rejects     *)
(* among them: bodies with a missing field or a short password, names that *)
(* are taken or unknown, wrong passwords, no or no valid Authorization      *)
(* header, paths without a note id or with the id of no note.              *)
(***************************************************************************)
InitReject == InitWith({"ts"})

RejectHeaders == {Undefined, "Bearer %%%"} \cup IssuedHeaders
RejectPaths == NotePaths \cup {"/api/notes/"}

NextReject ==
    \/ TsRegister({Undefined, "alice"}, {Undefined, "12345", Password}, {0})
    \/ TsLogin({Undefined, "alice", "bob"}, {Undefined, Password, "654321"}, {0})
    \/ TsGetNotes(RejectHeaders, {0})
    \/ TsCreateNote(RejectHeaders, {Undefined, "T1"}, {Undefined, "C1"}, {0})
    \/ TsUpdateNote(RejectHeaders, RejectPaths, {Undefined, "T2"}, {Undefined}, {0})
    \/ TsDeleteNote(RejectHeaders, RejectPaths, {0})

SpecReject == InitReject /\ [][NextReject]_vars

TsOps == NotesOps \cup {"login", "register"}

(***************************************************************************)
(* C27.  State unchanged on rejection.                                     *)
(***************************************************************************)
\* C27: a request that the TypeScript worker answers with a status from 400
\* to 499 leaves the USERS and the NOTES namespace as they were.
C27_RejectionKeepsState ==
    [][(Handles(TsOps) /\ impl = "ts" /\ last'.status \in 400..499)
        => (USERS' = USERS /\ NOTES' = NOTES)]_vars

\* an update of a note that is not stored is answered 404 while the user and
\* a note of the user are stored
C27_Witness ==
    /\ last.op = "updateNote"
    /\ last.status = 404
    /\ last.user # Null
    /\ Has(USERS, "alice")
    /\ NOTES # EmptyKV


(***************************************************************************)
(* SpecDev: index.js deployed without KV namespaces.                       *)
(***************************************************************************)
InitDev ==
    /\ impl = "js"
    /\ clock = 0
    /\ entropy = 0
    /\ created = 0
    /\ USERS = EmptyKV
    /\ NOTES = EmptyKV
    /\ issued = EmptyKV
    /\ last = NoRequest
    /\ routes = <<>>
    /\ routed = NotRouted
    /\ matched = NotMatched
    /\ pending = NonePending
    /\ page = NoPage
    /\ notesStore = EmptyStore
    /\ memoryStorage = NewMiniNotesApp

DevPasswords == {Undefined, Password}

NextDev ==
    \/ DevHandleAuth({"register", "login"}, {"alice", "bob"}, DevPasswords)
    \/ DevHandleNotes({"GET", "POST"}, {Undefined} \cup IssuedHeaders)
    \/ DevTick

SpecDev == InitDev /\ [][NextDev]_vars

\* a step in which the development worker answers one of the operations
DevHandles(ops) == Handles(ops) /\ ~memoryStorage.kv

\* the name was registered with the password: a token was issued for it by a
\* register request with that body
RegisteredWith(username, password) ==
    \E t \in DOMAIN issued : issued[t].username = username /\ password = Password

(***************************************************************************)
(* C28.  The development store persists across requests.                   *)
(***************************************************************************)
\* C28: without KV namespaces, a login with the credentials of an earlier
\* successful register succeeds, and a GET /api/notes with the token of an
\* earlier successful register is answered 200.
C28_DevStorePersists ==
    [][/\ (DevHandles({"login"})
             /\ RegisteredWith(last'.req.username, last'.req.password))
          => last'.status = 200
       /\ (DevHandles({"getNotes"}) /\ last'.req.auth \in IssuedHeaders)
          => last'.status = 200]_vars


(***************************************************************************)
(* C29.  Note ids are unique per user (checked on SpecNotes).              *)
(***************************************************************************)
\* C29: in the single-file worker no two notes of a user's stored list have
\* the same id.
C29_UniqueIds ==
    impl = "js" =>
        \A k \in DOMAIN NOTES :
            \A i, j \in 1..Len(NOTES[k]) : i # j => NOTES[k][i].id # NOTES[k][j].id


(***************************************************************************)
(* SpecStore: the notes store of the frontend with up to two of its        *)
(* actions awaiting their fetch at the same time.                          *)
(***************************************************************************)
InitStore == InitWith({"ts"})

StoreActions == {"fetchNotes", "createNote", "updateNote", "deleteNote"}

\* the lists and the notes that the worker's responses carry
StoreLists == {<<>>, <<StoreNote("n1", "T1")>>}
StoreNotes == {StoreNote("n1", "T1"), StoreNote("n2", "T1")}

NextStore ==
    \/ \E c \in Procs : StoreCall(c, StoreActions, {Null, "token"}, {"n1", "n2"})
    \/ \E c \in Procs : StoreSettle(c, StoreLists, StoreNotes)
    \/ StoreSetCurrentNote
    \/ StoreClearError

SpecStore == InitStore /\ [][NextStore]_vars

\* an action of the store has a request in flight
InFlight == \E c \in Procs : notesStore.inflight[c] # NoCall

(***************************************************************************)
(* C30.  isLoading.                                                        *)
(***************************************************************************)
\* C30: isLoading is true exactly while at least one action of the store has
\* a request in flight.
C30_LoadingWhileInFlight == notesStore.isLoading = InFlight

====
